---- MODULE Spec2Model ----
(***************************************************************************)
(* A model of c3d.py: the Manager's dual-key group dictionary, the Group's *)
(* parameter dictionary, the frame-range properties of the Manager, the    *)
(* frame iterator of the Reader, the bytes Writer.write produces and the   *)
(* construction of a Reader on a file of either byte order.                *)
(*                                                                         *)
(* In the Writer and Reader part a str is the sequence of its code points  *)
(* and bytes is a sequence of integers 0..255.                             *)
(*                                                                         *)
(* Text is a sequence of one-character strings (<<"A","2">> is 'A2'), so   *)
(* that upper-casing, concatenation and splitting are computed.  The       *)
(* dictionary Manager._groups has integer and string keys: it is kept as   *)
(* two maps, groups_int (its integer keys) and groups_str (its string      *)
(* keys).  Group and Param are objects with identity: they are references  *)
(* into group_name/group_params and param_name.  An operation is an       *)
(* operator from the current state and its arguments to the state it       *)
(* leaves and the exception it raised; the action applies it.              *)
(***************************************************************************)
EXTENDS Integers, Sequences, FiniteSets, TLC

(***************************************************************************)
(* Bounds                                                                  *)
(***************************************************************************)
MaxId == 3          \* group ids offered to the operations: 1..MaxId
MaxGroups == 3      \* Group objects alive at the same time
MaxParams == 2      \* Param objects alive at the same time
SmallId == 2        \* group ids offered when parameters are edited too

Ids == 1..MaxId
SmallIds == 1..SmallId
Refs == 1..MaxGroups
PRefs == 1..MaxParams

\* names offered to add_group / rename_group / remove_group
GroupNames == {<<"a">>, <<"A">>, <<"A", "2">>}
SmallNames == {<<"a">>, <<"A">>}
\* names offered to add_param / rename_param / remove_param
ParamNames == {<<"p">>, <<"P">>, <<"Q">>}

\* Python's None (no text is made of this token)
None == <<"None">>

\* the Manager: its dictionary, the Group and Param objects, and the
\* exception the last operation raised
VARIABLES groups_int, groups_str, group_name, group_params, param_name, raised

\* the Manager has the attribute _dtypes: Reader.__init__ and Writer.__init__
\* set it, Manager.__init__ does not
VARIABLES dtypes

\* the file a Reader was constructed on (header, the parameters get()
\* returns, the derived properties, the size of the byte source), the shared
\* handle position, and the generator read_frames() returned
VARIABLES header, params, meta, file_size, position, pc, frame_no, frames, warned

\* a second generator read_frames() returned on the same Reader: its pc, its
\* frame_no and the frames it yielded
VARIABLES second

\* a Writer: its constructor arguments, the frames add_frames() buffered, its
\* _groups dictionary (the keys in insertion order, each with the Group object
\* it refers to), its header, the handle write() is given and how the last
\* call of add_frames() or write() ended ("new": there was none); r_groups
\* is what a Reader constructed on the handle holds: its groups, the
\* processor of its _dtypes and its header
VARIABLES writer, w_frames, w_keys, w_objs, w_header, handle, w_pc, r_groups

managerVars == <<groups_int, groups_str, group_name, group_params, param_name, raised,
                dtypes>>
readerVars == <<header, params, meta, file_size, position, pc, frame_no, frames, warned,
               second>>

\* a generator that was not created
NoGenerator == [pc |-> "none", frame_no |-> 0, frames |-> <<>>]
writerVars == <<writer, w_frames, w_keys, w_objs, w_header, handle, w_pc, r_groups>>
vars == <<managerVars, readerVars, writerVars>>

\* a Reader that was not constructed
\* Header.__init__: the fields of a Header() that was not read from a file
DefaultHeader ==
    [parameter_block |-> 2, point_count |-> 50, analog_count |-> 0,
     first_frame |-> 1, last_frame |-> 1, max_gap |-> 0, scale_factor |-> -1,
     data_block |-> 3, analog_per_frame |-> 0, frame_rate |-> 60]

NoReader == [raised |-> "unopened", keys |-> <<>>, objs |-> <<>>, entries |-> <<>>,
             proc |-> 0, header |-> DefaultHeader, tell |-> 0]

\* Writer(): the default arguments, nothing buffered, nothing written
NoWriter ==
    /\ writer = [point_rate |-> 480, analog_rate |-> 0, point_scale |-> -1,
                 point_units |-> <<109, 109, 32, 32>>, gen_scale |-> 1]
    /\ w_frames = <<>>
    /\ w_keys = <<>>
    /\ w_objs = <<>>
    /\ w_header = DefaultHeader
    /\ handle = <<>>
    /\ w_pc = "new"
    /\ r_groups = NoReader

(***************************************************************************)
(* Text                                                                    *)
(***************************************************************************)
\* str.upper() of one character
Upper(c) ==
    CASE c = "a" -> "A"
      [] c = "b" -> "B"
      [] c = "p" -> "P"
      [] c = "q" -> "Q"
      [] OTHER -> c

\* str.upper()
StrUpper(s) == [i \in 1..Len(s) |-> Upper(s[i])]

Digit(d) ==
    CASE d = 0 -> "0" [] d = 1 -> "1" [] d = 2 -> "2" [] d = 3 -> "3"
      [] d = 4 -> "4" [] d = 5 -> "5" [] d = 6 -> "6" [] d = 7 -> "7"
      [] d = 8 -> "8" [] d = 9 -> "9"

\* str(n) of a non-negative integer
RECURSIVE str(_)
str(n) == IF n < 10 THEN <<Digit(n)>> ELSE str(n \div 10) \o <<Digit(n % 10)>>

\* sep in s
Contains(s, sep) == \E i \in 1..Len(s) : s[i] = sep

\* s.split(sep, 1) when sep is in s: the text before and after the first sep
Split(s, sep) ==
    LET i == CHOOSE j \in 1..Len(s) : s[j] = sep /\ \A k \in 1..(j - 1) : s[k] # sep
    IN <<SubSeq(s, 1, i - 1), SubSeq(s, i + 1, Len(s))>>

(***************************************************************************)
(* Dictionaries                                                            *)
(***************************************************************************)
\* {}
EmptyMap == [x \in {} |-> x]

Range(f) == {f[k] : k \in DOMAIN f}

\* d[k] = v on a map
Put(f, k, v) == [x \in DOMAIN f \cup {k} |-> IF x = k THEN v ELSE f[x]]

\* del d[k] on a map
Remove(f, k) == [x \in DOMAIN f \ {k} |-> f[x]]

\* An insertion-ordered dict (Group._params): a sequence of <<key, value>>
ParamKeys(d) == {d[i][1] : i \in 1..Len(d)}

ParamAt(d, k) == d[CHOOSE i \in 1..Len(d) : d[i][1] = k][2]

\* d[k] = v: an existing key keeps its place, a new key goes last
ParamSet(d, k, v) ==
    IF k \in ParamKeys(d)
    THEN [i \in 1..Len(d) |-> IF d[i][1] = k THEN <<k, v>> ELSE d[i]]
    ELSE Append(d, <<k, v>>)

\* del d[k]
ParamDel(d, k) == SelectSeq(d, LAMBDA e : e[1] # k)

(***************************************************************************)
(* Objects                                                                 *)
(***************************************************************************)
IntKey(i) == [t |-> "int", v |-> i]
StrKey(s) == [t |-> "str", v |-> s]
Obj(r) == [t |-> "obj", v |-> r]

\* the Param objects the dictionaries gp store
ParamsIn(gp) == UNION {{gp[r][i][2] : i \in 1..Len(gp[r])} : r \in Refs}

\* Group objects the Manager holds under some key
LiveGroups == Range(groups_int) \cup Range(groups_str)

\* Param objects some held Group stores
LiveParams == ParamsIn(group_params)

\* Group(...): the reference a newly constructed Group gets
NewRef == CHOOSE r \in Refs \ LiveGroups : \A s \in Refs \ LiveGroups : r <= s

\* Param(...): the reference a newly constructed Param gets
NewPRef == CHOOSE p \in PRefs \ LiveParams : \A q \in PRefs \ LiveParams : p <= q

\* The outcome of an operation that returned: the dictionaries as assigned;
\* objects that nothing refers to any more are dropped (their reference may
\* be given to a new object).
Done(gi, gs, gn, gp, pn) ==
    LET live == Range(gi) \cup Range(gs)
        gp2 == [r \in Refs |-> IF r \in live THEN gp[r] ELSE <<>>]
    IN [raised |-> "none",
        gi |-> gi,
        gs |-> gs,
        gn |-> [r \in Refs |-> IF r \in live THEN gn[r] ELSE None],
        gp |-> gp2,
        pn |-> [p \in PRefs |-> IF p \in ParamsIn(gp2) THEN pn[p] ELSE None]]

\* The outcome of an operation that raised exc, or returned, at a point
\* where it had changed nothing
Keep(exc) ==
    [raised |-> exc, gi |-> groups_int, gs |-> groups_str, gn |-> group_name,
     gp |-> group_params, pn |-> param_name]

\* The step that performs an operation with outcome e
Apply(e) ==
    /\ groups_int' = e.gi
    /\ groups_str' = e.gs
    /\ group_name' = e.gn
    /\ group_params' = e.gp
    /\ param_name' = e.pn
    /\ raised' = e.raised
    /\ UNCHANGED <<dtypes, readerVars, writerVars>>

(***************************************************************************)
(* Manager                                                                 *)
(***************************************************************************)
\* Manager.__init__: no groups
InitManager ==
    /\ groups_int = EmptyMap
    /\ groups_str = EmptyMap
    /\ group_name = [r \in Refs |-> None]
    /\ group_params = [r \in Refs |-> <<>>]
    /\ param_name = [p \in PRefs |-> None]
    /\ raised = "none"

\* (mutant) add_group without the check of group_id
add_group_NoIdCheck(group_id, name, rename_duplicated_groups) ==
    LET upper == StrUpper(name)
        new_name == upper \o str(group_id)
        final == IF upper \in DOMAIN groups_str THEN new_name ELSE upper
        group == IF Refs \ LiveGroups = {} THEN groups_int[group_id] ELSE NewRef
    IN IF upper \in DOMAIN groups_str /\ ~rename_duplicated_groups
       THEN Keep("KeyError")
       ELSE IF ~dtypes
       THEN \* Group(self._dtypes, name, desc): the attribute is read first
            Keep("AttributeError")
       ELSE Done(Put(groups_int, group_id, group),
                 Put(groups_str, final, group),
                 [group_name EXCEPT ![group] = final],
                 [group_params EXCEPT ![group] = <<>>],
                 param_name)

\* Manager.add_group(group_id, name, desc, rename_duplicated_groups)
add_group(group_id, name, rename_duplicated_groups) ==
    LET upper == StrUpper(name)
        new_name == upper \o str(group_id)
        final == IF upper \in DOMAIN groups_str THEN new_name ELSE upper
        group == NewRef
    IN IF group_id \in DOMAIN groups_int
       THEN Keep("KeyError")
       ELSE IF upper \in DOMAIN groups_str /\ ~rename_duplicated_groups
       THEN Keep("KeyError")
       ELSE IF ~dtypes
       THEN \* Group(self._dtypes, name, desc): the attribute is read first
            Keep("AttributeError")
       ELSE Done(Put(groups_int, group_id, group),
                 Put(groups_str, final, group),
                 [group_name EXCEPT ![group] = final],
                 [group_params EXCEPT ![group] = <<>>],
                 param_name)

\* add_group constructs a Group unless it raises
Constructs(group_id, name, rename_duplicated_groups) ==
    /\ dtypes
    /\ group_id \notin DOMAIN groups_int
    /\ StrUpper(name) \in DOMAIN groups_str => rename_duplicated_groups

\* key in self._groups
InGroups(key) ==
    CASE key.t = "int" -> key.v \in DOMAIN groups_int
      [] key.t = "str" -> key.v \in DOMAIN groups_str
      [] OTHER -> FALSE

\* self._groups[key], and the Group itself for a Group instance
Resolve(key) ==
    CASE key.t = "obj" -> key.v
      [] key.t = "int" -> groups_int[key.v]
      [] key.t = "str" -> groups_str[key.v]

\* Manager.remove_group(group_id): group_id is an integer or a string key
remove_group(group_id) ==
    IF ~InGroups(group_id)
    THEN Keep("none")
    ELSE LET grp == Resolve(group_id)
         IN Done([k \in {x \in DOMAIN groups_int : groups_int[x] # grp} |-> groups_int[k]],
                 [k \in {x \in DOMAIN groups_str : groups_str[x] # grp} |-> groups_str[k]],
                 group_name, group_params, param_name)

\* group.name = value on a Group the Manager holds (the setter of
\* Group.name): _name is set as given, to a string or to None, and the keys
\* of the Manager stay as they are; any other value raises TypeError
set_name(grp, value) ==
    IF value.t \in {"str", "None"}
    THEN Done(groups_int, groups_str,
              [group_name EXCEPT ![grp] = IF value.t = "None" THEN None ELSE value.v],
              group_params, param_name)
    ELSE Keep("TypeError")

\* new_group_id == group_id (a Group instance equals no key)
SameKey(a, b) == a.t = b.t /\ a.v = b.v

\* Manager.rename_group(group_id, new_group_id): group_id is an integer, a
\* string or a Group instance, new_group_id an integer or a string
rename_group(group_id, new_group_id) ==
    IF group_id.t # "obj" /\ ~InGroups(group_id)
    THEN Keep("KeyError")
    ELSE LET grp == Resolve(group_id)
         IN IF InGroups(new_group_id)
            THEN IF SameKey(new_group_id, group_id)
                 THEN Keep("none")
                 ELSE Keep("ValueError")
            ELSE IF new_group_id.t = "str"
            THEN LET cleared == IF group_name[grp] \in DOMAIN groups_str
                                THEN Remove(groups_str, group_name[grp])
                                ELSE groups_str
                 IN Done(groups_int,
                         Put(cleared, new_group_id.v, grp),
                         [group_name EXCEPT ![grp] = new_group_id.v],
                         group_params, param_name)
            ELSE \* an integer: del self._groups[group_id], group_id as given
                 IF group_id.t = "obj"
                 THEN Keep("KeyError")
                 ELSE Done(Put(IF group_id.t = "int"
                               THEN Remove(groups_int, group_id.v)
                               ELSE groups_int, new_group_id.v, grp),
                           IF group_id.t = "str"
                           THEN Remove(groups_str, group_id.v)
                           ELSE groups_str,
                           group_name, group_params, param_name)

Default == [t |-> "default"]
GroupValue(r) == [t |-> "group", v |-> r]
ParamValue(p) == [t |-> "param", v |-> p]

\* Group.get(key, default) on the parameter dictionary d
GroupGet(d, key, default) ==
    IF key \in ParamKeys(d) THEN ParamValue(ParamAt(d, key)) ELSE default

\* Manager.get(group, default) for an integer, on the dictionary gi
GetInt(gi, group, default) ==
    IF group \in DOMAIN gi THEN GroupValue(gi[group]) ELSE default

\* (mutant) get without group.upper()
GetStr_NoUpper(gs, gp, path, default) ==
    LET dot == IF Contains(path, ".") THEN Split(path, ".") ELSE <<path, None>>
        col == IF Contains(dot[1], ":") THEN Split(dot[1], ":") ELSE dot
    IN IF col[1] \notin DOMAIN gs THEN default
       ELSE IF col[2] # None THEN GroupGet(gp[gs[col[1]]], col[2], default)
       ELSE GroupValue(gs[col[1]])

\* Manager.get(group, default) for a string, on the dictionaries gs and gp
GetStr(gs, gp, path, default) ==
    LET upper == StrUpper(path)
        dot == IF Contains(upper, ".") THEN Split(upper, ".") ELSE <<upper, None>>
        col == IF Contains(dot[1], ":") THEN Split(dot[1], ":") ELSE dot
        group == col[1]
        param == col[2]
    IN IF group \notin DOMAIN gs THEN default
       ELSE IF param # None THEN GroupGet(gp[gs[group]], param, default)
       ELSE GroupValue(gs[group])

\* Manager.get in the current state
get(group, default) ==
    IF group.t = "int" THEN GetInt(groups_int, group.v, default)
    ELSE GetStr(groups_str, group_params, group.v, default)

(***************************************************************************)
(* Group                                                                   *)
(***************************************************************************)
\* Group.add_param(name) on the Group g
add_param(g, name) ==
    LET p == NewPRef
        upper == StrUpper(name)
    IN Done(groups_int, groups_str, group_name,
            [group_params EXCEPT ![g] = ParamSet(@, upper, p)],
            [param_name EXCEPT ![p] = upper])

\* Group.remove_param(name) on the Group g
remove_param(g, name) ==
    IF name \notin ParamKeys(group_params[g])
    THEN Keep("KeyError")
    ELSE Done(groups_int, groups_str, group_name,
              [group_params EXCEPT ![g] = ParamDel(@, name)],
              param_name)

\* Group.rename_param(name, new_name) on the Group g: name is a string or a
\* Param instance
rename_param(g, name, new_name) ==
    LET d == group_params[g]
        param == IF name.t = "obj" THEN name.v ELSE ParamAt(d, name.v)
        key == IF name.t = "obj" THEN param_name[name.v] ELSE name.v
    IN IF new_name \in ParamKeys(d)
       THEN Keep("ValueError")
       ELSE IF name.t = "str" /\ name.v \notin ParamKeys(d)
       THEN Keep("ValueError")
       ELSE IF key \notin ParamKeys(d)
       THEN Keep("KeyError")
       ELSE Done(groups_int, groups_str, group_name,
                 [group_params EXCEPT ![g] = ParamSet(ParamDel(d, key), new_name, param)],
                 param_name)

(***************************************************************************)
(* Param values.  A payload is the raw bytes of a Param with its           *)
(* total_bytes and the byte order of its _dtypes (mips: big-endian).       *)
(***************************************************************************)
Payload(bs) == [total_bytes |-> Len(bs), bytes |-> bs, mips |-> FALSE]

\* self.get(path) is None: there is no such parameter
NoParam == [total_bytes |-> -1, bytes |-> <<>>, mips |-> FALSE]

\* np.frombuffer(self.bytes, count=1, dtype=dtype)[0]: the n bytes of the
\* first element, least significant first
Native(p, n) == IF p.mips THEN [i \in 1..n |-> p.bytes[n + 1 - i]]
                ELSE SubSeq(p.bytes, 1, n)

\* struct.pack('<H', n), struct.pack('<I', n)
PackU16(n) == <<n % 256, n \div 256>>
PackU32(n) == <<n % 256, (n \div 256) % 256, (n \div 65536) % 256, n \div 16777216>>

\* Param.uint8_value, uint16_value, uint32_value: the first element
uint8_value(p) == p.bytes[1]
uint16_value(p) == LET b == Native(p, 2) IN b[1] + 256 * b[2]
uint32_value(p) ==
    LET b == Native(p, 4) IN b[1] + 256 * b[2] + 65536 * b[3] + 16777216 * b[4]

RECURSIVE Pow2(_)
Pow2(n) == IF n = 0 THEN 1 ELSE 2 * Pow2(n - 1)

\* the fields of the IEEE-754 single in the first four bytes
FloatSign(p) == Native(p, 4)[4] \div 128
FloatExp(p) == LET b == Native(p, 4) IN (b[4] % 128) * 2 + b[3] \div 128
FloatMan(p) == LET b == Native(p, 4) IN (b[3] % 128) * 65536 + b[2] * 256 + b[1]

\* int(value) == value for value = Param.float_value (a finite value)
FloatIsInteger(p) ==
    \/ FloatExp(p) = 0 /\ FloatMan(p) = 0
    \/ FloatExp(p) >= 150
    \/ FloatExp(p) >= 127 /\ (8388608 + FloatMan(p)) % Pow2(150 - FloatExp(p)) = 0

\* Param.float_value when it is an integer (below 2^31)
FloatInteger(p) ==
    LET mag == IF FloatExp(p) = 0 THEN 0
               ELSE IF FloatExp(p) >= 150
               THEN (8388608 + FloatMan(p)) * Pow2(FloatExp(p) - 150)
               ELSE (8388608 + FloatMan(p)) \div Pow2(150 - FloatExp(p))
    IN IF FloatSign(p) = 1 THEN 0 - mag ELSE mag

\* Param._as_integer_value
as_integer_value(p) ==
    IF p.total_bytes >= 4
    THEN IF FloatIsInteger(p) THEN FloatInteger(p) ELSE uint32_value(p)
    ELSE IF p.total_bytes >= 2 THEN uint16_value(p)
    ELSE uint8_value(p)

(***************************************************************************)
(* Manager: the frame range                                                *)
(***************************************************************************)
\* the parameters the frame range is read from; params[path] is what
\* self.get(path) returns: NoParam (None) or the Param's payload
ParamPaths == {"TRIAL:ACTUAL_START_FIELD", "TRIAL:ACTUAL_END_FIELD",
               "POINT:LONG_FRAMES", "POINT:FRAMES",
               "ANALOG:FORMAT", "ANALOG:BITS", "ANALOG:SCALE", "ANALOG:OFFSET"}

\* Manager.first_frame
first_frame ==
    IF params["TRIAL:ACTUAL_START_FIELD"] # NoParam
    THEN uint32_value(params["TRIAL:ACTUAL_START_FIELD"])
    ELSE header.first_frame

\* np.max
SetMax(S) == CHOOSE x \in S : \A y \in S : y <= x

\* end_frame[k] = param._as_integer_value if the parameter is there, else 0
EndFrame(path) == IF params[path] # NoParam THEN as_integer_value(params[path]) ELSE 0

\* (mutant) a one-frame header range counts as valid
HeaderRange_Inclusive(first, last) == first <= last /\ last # 65535

\* the header's frame range is used
HeaderRange(first, last) == first < last /\ last # 65535

\* Manager.last_frame
last_frame ==
    IF HeaderRange(header.first_frame, header.last_frame)
    THEN header.last_frame
    ELSE SetMax({header.last_frame, EndFrame("TRIAL:ACTUAL_END_FIELD"),
                 EndFrame("POINT:LONG_FRAMES"), EndFrame("POINT:FRAMES")})

\* Manager.frame_count
frame_count == last_frame - first_frame + 1

(***************************************************************************)
(* Reader.read_frames                                                      *)
(***************************************************************************)
BlockSize == 512

\* point_word_bytes, analog_word_bytes
point_word_bytes == IF meta.point_scale < 0 THEN 4 ELSE 2
analog_word_bytes == IF meta.point_scale < 0 THEN 4 ELSE 2

\* Param.string_value.strip().upper() on ASCII bytes (32 is the space)
ByteUpper(b) == IF b >= 97 /\ b <= 122 THEN b - 32 ELSE b

RECURSIVE Strip(_)
Strip(bs) ==
    IF bs = <<>> THEN bs
    ELSE IF Head(bs) = 32 THEN Strip(Tail(bs))
    ELSE IF bs[Len(bs)] = 32 THEN Strip(SubSeq(bs, 1, Len(bs) - 1))
    ELSE bs

\* 'UNSIGNED'
UNSIGNED == <<85, 78, 83, 73, 71, 78, 69, 68>>

\* analog_unsigned = p and p.string_value.strip().upper() == 'UNSIGNED'
analog_unsigned ==
    LET p == params["ANALOG:FORMAT"]
        text == Strip(p.bytes)
    IN /\ p # NoParam
       /\ [i \in 1..Len(text) |-> ByteUpper(text[i])] = UNSIGNED

\* p and p._as_integer_value / 8 != analog_word_bytes, for p = ANALOG:BITS
BitsDiffer ==
    LET p == params["ANALOG:BITS"]
    IN p # NoParam /\ as_integer_value(p) # 8 * analog_word_bytes

\* read_frames raises NotImplementedError: the test of ANALOG:BITS is in the
\* branch of unsigned integer analog data only
Unsupported == ~(meta.point_scale < 0) /\ analog_unsigned /\ BitsDiffer

\* analog_scales[:, :] = param.float_array[:self.analog_used, None] raises
\* ValueError: the rows of ANALOG:SCALE taken (at most analog_used) are neither
\* analog_used nor one, so they cannot be broadcast to analog_used rows
ScaleMismatch ==
    LET p == params["ANALOG:SCALE"]
        n == Len(p.bytes) \div 4
        rows == IF n < meta.analog_used THEN n ELSE meta.analog_used
    IN p # NoParam /\ rows # meta.analog_used /\ rows # 1

\* (analog - offsets) raises ValueError: the rows of ANALOG:OFFSET taken
\* cannot be broadcast against the analog_used rows of the samples
OffsetMismatch ==
    LET p == params["ANALOG:OFFSET"]
        n == Len(p.bytes) \div 2
        rows == IF n < meta.analog_used THEN n ELSE meta.analog_used
    IN /\ p # NoParam /\ rows # meta.analog_used /\ rows # 1 /\ meta.analog_used # 1
       /\ meta.analog_used * meta.analog_per_frame > 0

\* bytes per frame
point_bytes == 4 * meta.point_used * point_word_bytes
analog_bytes == meta.analog_used * meta.analog_per_frame * analog_word_bytes

\* self._handle.seek((self._header.data_block - 1) * 512)
data_start == (header.data_block - 1) * BlockSize

\* len(self._handle.read(n)) with the handle at pos
ReadLen(pos, n) ==
    IF pos >= file_size THEN 0
    ELSE IF file_size - pos < n THEN file_size - pos ELSE n

\* (mutant) only the point read is checked
ShortRead_PointOnly(raw_bytes, raw_analog) == raw_bytes < point_bytes

\* the two checks after the reads: one of them came back short
ShortRead(raw_bytes, raw_analog) ==
    raw_bytes < point_bytes \/ raw_analog < analog_bytes

\* the check after the loop: seek(0, 2), tell() - final_byte_index
TrailingData(final_byte_index) == file_size - final_byte_index >= BlockSize

\* read_frames(): the generator is created, nothing runs yet
ReadFrames ==
    /\ pc = "none"
    /\ pc' = "created"
    /\ UNCHANGED <<header, params, meta, file_size, position, frame_no, frames, warned,
                   second>>
    /\ UNCHANGED <<managerVars, writerVars>>

\* (mutant) the first next() does not seek to the data
read_frames_NoSeek(g) ==
    LET pos == position
        no == IF g.pc = "created" THEN first_frame ELSE g.frame_no + 1
        raw_bytes == ReadLen(pos, point_bytes)
        raw_analog == ReadLen(pos + raw_bytes, analog_bytes)
        same == [pc |-> g.pc, frame_no |-> g.frame_no, frames |-> g.frames,
                 position |-> position, warned |-> warned]
    IN IF g.pc = "created" /\ Unsupported
       THEN \* raise NotImplementedError, before the seek
            [same EXCEPT !.pc = "raised"]
       ELSE IF g.pc = "created" /\ ScaleMismatch
       THEN \* ValueError, before the seek
            [same EXCEPT !.pc = "failed"]
       ELSE IF no > last_frame
       THEN \* the loop is over
            [same EXCEPT !.pc = "done", !.position = file_size,
                         !.warned = IF TrailingData(pos) THEN warned \cup {"trailing"}
                                    ELSE warned]
       ELSE IF ShortRead(raw_bytes, raw_analog)
       THEN \* warn and return
            [same EXCEPT !.pc = "done", !.frame_no = no,
                         !.position = pos + raw_bytes + raw_analog,
                         !.warned = warned \cup {"eof"}]
       ELSE IF OffsetMismatch
       THEN \* ValueError, after the two reads
            [same EXCEPT !.pc = "failed", !.frame_no = no,
                         !.position = pos + raw_bytes + raw_analog]
       ELSE \* yield frame_no, points, analog
            [same EXCEPT !.pc = "suspended", !.frame_no = no,
                         !.position = pos + raw_bytes + raw_analog,
                         !.frames = Append(g.frames, [frame_no |-> no, at |-> pos])]

\* next() on a generator g of read_frames(): it runs to its next yield or to
\* its end, on the handle as it stands; the result is the generator, the
\* handle position and the warnings after it
read_frames(g) ==
    LET pos == IF g.pc = "created" THEN data_start ELSE position
        no == IF g.pc = "created" THEN first_frame ELSE g.frame_no + 1
        raw_bytes == ReadLen(pos, point_bytes)
        raw_analog == ReadLen(pos + raw_bytes, analog_bytes)
        same == [pc |-> g.pc, frame_no |-> g.frame_no, frames |-> g.frames,
                 position |-> position, warned |-> warned]
    IN IF g.pc = "created" /\ Unsupported
       THEN \* raise NotImplementedError, before the seek
            [same EXCEPT !.pc = "raised"]
       ELSE IF g.pc = "created" /\ ScaleMismatch
       THEN \* ValueError, before the seek
            [same EXCEPT !.pc = "failed"]
       ELSE IF no > last_frame
       THEN \* the loop is over
            [same EXCEPT !.pc = "done", !.position = file_size,
                         !.warned = IF TrailingData(pos) THEN warned \cup {"trailing"}
                                    ELSE warned]
       ELSE IF ShortRead(raw_bytes, raw_analog)
       THEN \* warn and return
            [same EXCEPT !.pc = "done", !.frame_no = no,
                         !.position = pos + raw_bytes + raw_analog,
                         !.warned = warned \cup {"eof"}]
       ELSE IF OffsetMismatch
       THEN \* ValueError, after the two reads
            [same EXCEPT !.pc = "failed", !.frame_no = no,
                         !.position = pos + raw_bytes + raw_analog]
       ELSE \* yield frame_no, points, analog
            [same EXCEPT !.pc = "suspended", !.frame_no = no,
                         !.position = pos + raw_bytes + raw_analog,
                         !.frames = Append(g.frames, [frame_no |-> no, at |-> pos])]

\* next() on the generator
Pull ==
    /\ pc \in {"created", "suspended"}
    /\ \E e \in {read_frames([pc |-> pc, frame_no |-> frame_no, frames |-> frames])} :
          /\ pc' = e.pc
          /\ frame_no' = e.frame_no
          /\ frames' = e.frames
          /\ position' = e.position
          /\ warned' = e.warned
    /\ UNCHANGED <<header, params, meta, file_size, second>>
    /\ UNCHANGED <<managerVars, writerVars>>

\* read_frames() once more on the same Reader: a second generator is created
ReadFramesOther ==
    /\ second.pc = "none"
    /\ second' = [second EXCEPT !.pc = "created"]
    /\ UNCHANGED <<header, params, meta, file_size, position, pc, frame_no, frames, warned>>
    /\ UNCHANGED <<managerVars, writerVars>>

\* next() on the second generator
PullOther ==
    /\ second.pc \in {"created", "suspended"}
    /\ \E e \in {read_frames(second)} :
          /\ second' = [pc |-> e.pc, frame_no |-> e.frame_no, frames |-> e.frames]
          /\ position' = e.position
          /\ warned' = e.warned
    /\ UNCHANGED <<header, params, meta, file_size, pc, frame_no, frames>>
    /\ UNCHANGED <<managerVars, writerVars>>

\* the files a Reader is constructed on
MaxRecords == 3     \* whole frame records in the data section

HeaderFirst == {1, 2, 6}
HeaderLast == {1, 4, 65535}
DataBlocks == {2, 3}
StartFields == {NoParam, Payload(PackU32(2))}
EndFields == {NoParam, Payload(<<0, 0, 64, 64>> \o PackU32(0))}   \* 3.0 as a float
LongFrames == {NoParam, Payload(PackU32(5))}
PointFrames == {NoParam, Payload(PackU16(2))}
Tails == {0, 1, BlockSize, BlockSize + 1}   \* bytes after the whole records

InitReader ==
    /\ InitManager
    /\ dtypes = TRUE
    /\ NoWriter
    /\ header \in [first_frame : HeaderFirst, last_frame : HeaderLast, data_block : DataBlocks]
    /\ \E s \in StartFields, e \in EndFields, l \in LongFrames, f \in PointFrames :
           params = [n \in ParamPaths |->
                        CASE n = "TRIAL:ACTUAL_START_FIELD" -> s
                          [] n = "TRIAL:ACTUAL_END_FIELD" -> e
                          [] n = "POINT:LONG_FRAMES" -> l
                          [] n = "POINT:FRAMES" -> f
                          [] OTHER -> NoParam]
    /\ meta \in [point_used : {1, 2}, point_scale : {-1, 1},
                 analog_used : {0, 1}, analog_per_frame : {2}]
    /\ \E k \in 0..MaxRecords, t \in Tails :
           file_size \in {data_start + k * (point_bytes + analog_bytes) + t, BlockSize}
    /\ position = 0
    /\ pc = "none"
    /\ frame_no = 0
    /\ second = NoGenerator
    /\ frames = <<>>
    /\ warned = {}

NextReader == ReadFrames \/ Pull

\* the ANALOG:FORMAT and ANALOG:BITS parameters of the files read
Text(bs) == [total_bytes |-> Len(bs), bytes |-> bs, mips |-> FALSE]
AnalogFormats ==
    {NoParam,
     Text(<<83, 73, 71, 78, 69, 68>>),                    \* 'SIGNED'
     Text(UNSIGNED),
     Text(<<117, 110, 115, 105, 103, 110, 101, 100, 32>>)} \* 'unsigned '
AnalogBits ==
    {NoParam, Payload(PackU16(16)), Payload(PackU16(12)), Payload(PackU16(32)),
     Payload(<<0, 0, 128, 65>>)}                          \* 16.0 as a float

\* Readers over files that differ in the analog format
InitAnalog ==
    /\ InitManager
    /\ dtypes = TRUE
    /\ NoWriter
    /\ header \in [first_frame : {1}, last_frame : {1, 2}, data_block : {2}]
    /\ \E f \in AnalogFormats, b \in AnalogBits :
           params = [n \in ParamPaths |->
                        CASE n = "ANALOG:FORMAT" -> f
                          [] n = "ANALOG:BITS" -> b
                          [] OTHER -> NoParam]
    /\ meta \in [point_used : {1}, point_scale : {-1, 1},
                 analog_used : {0, 1}, analog_per_frame : {1, 2}]
    /\ \E k \in 0..MaxRecords :
           file_size = data_start + k * (point_bytes + analog_bytes)
    /\ position = 0
    /\ pc = "none"
    /\ frame_no = 0
    /\ second = NoGenerator
    /\ frames = <<>>
    /\ warned = {}

SpecAnalog == InitAnalog /\ [][NextReader]_vars

SpecReader == InitReader /\ [][NextReader]_vars

(***************************************************************************)
(* Two generators of read_frames() on one Reader: both read through        *)
(* self._handle, and only the first next() of a generator seeks            *)
(***************************************************************************)
\* Readers over files of whole frame records, with no frame parameters
InitShared ==
    /\ InitManager
    /\ dtypes = TRUE
    /\ NoWriter
    /\ header \in [first_frame : {1, 2}, last_frame : {4}, data_block : {2}]
    /\ params = [n \in ParamPaths |-> NoParam]
    /\ meta \in [point_used : {1}, point_scale : {-1, 1},
                 analog_used : {0, 1}, analog_per_frame : {2}]
    /\ \E k \in 1..MaxRecords :
           file_size = data_start + k * (point_bytes + analog_bytes)
    /\ position = 0
    /\ pc = "none"
    /\ frame_no = 0
    /\ second = NoGenerator
    /\ frames = <<>>
    /\ warned = {}

NextShared == ReadFrames \/ Pull \/ ReadFramesOther \/ PullOther

SpecShared == InitShared /\ [][NextShared]_vars

(***************************************************************************)
(* Writer.  A str is the sequence of its code points, a bytes object the   *)
(* sequence of its bytes.                                                  *)
(***************************************************************************)
Abs(n) == IF n < 0 THEN 0 - n ELSE n

\* str.encode('utf-8') of one character
Utf8Char(c) ==
    IF c < 128 THEN <<c>>
    ELSE IF c < 2048 THEN <<192 + (c \div 64), 128 + (c % 64)>>
    ELSE IF c < 65536
    THEN <<224 + (c \div 4096), 128 + ((c \div 64) % 64), 128 + (c % 64)>>
    ELSE <<240 + (c \div 262144), 128 + ((c \div 4096) % 64),
           128 + ((c \div 64) % 64), 128 + (c % 64)>>

\* str.encode('utf-8')
RECURSIVE encode(_)
encode(s) ==
    IF Len(s) = 0 THEN <<>>
    ELSE IF Len(s) = 1 THEN Utf8Char(s[1])
    ELSE LET h == Len(s) \div 2
         IN encode(SubSeq(s, 1, h)) \o encode(SubSeq(s, h + 1, Len(s)))

\* str.ljust(width)
ljust(s, width) ==
    IF Len(s) >= width THEN s ELSE s \o [i \in 1..(width - Len(s)) |-> 32]

\* b'\x00' * n
Zeros(n) == [i \in 1..n |-> 0]

\* struct.pack('b', n), struct.pack('<h', n), struct.pack('<i', n)
PackI8(n) == <<IF n < 0 THEN n + 256 ELSE n>>
PackI16(n) == PackU16(IF n < 0 THEN n + 65536 ELSE n)
PackI32(n) ==
    IF n < 0 THEN LET m == n + 2147483647 + 1   \* n + 2^31
                  IN <<m % 256, (m \div 256) % 256, (m \div 65536) % 256,
                       128 + (m \div 16777216)>>
    ELSE PackU32(n)

\* the exponent of the largest power of two that is at most n (n >= 1)
RECURSIVE Log2(_)
Log2(n) == IF n < 2 THEN 0 ELSE 1 + Log2(n \div 2)

\* struct.pack('<f', n) for an integer n of magnitude below 2^24
PackF32(n) ==
    IF n = 0 THEN <<0, 0, 0, 0>>
    ELSE LET e == Log2(Abs(n))
             exp == 127 + e
             man == (Abs(n) - Pow2(e)) * Pow2(23 - e)
         IN <<man % 256, (man \div 256) % 256,
              ((exp % 2) * 128) + (man \div 65536),
              (IF n < 0 THEN 128 ELSE 0) + (exp \div 2)>>

RECURSIVE Prod(_)
Prod(dims) == IF dims = <<>> THEN 1 ELSE Head(dims) * Prod(Tail(dims))

RECURSIVE Sum(_)
Sum(ns) == IF ns = <<>> THEN 0 ELSE Head(ns) + Sum(Tail(ns))

RECURSIVE Concat(_)
Concat(ss) ==
    IF Len(ss) = 0 THEN <<>>
    ELSE IF Len(ss) = 1 THEN ss[1]
    ELSE LET h == Len(ss) \div 2
         IN Concat(SubSeq(ss, 1, h)) \o Concat(SubSeq(ss, h + 1, Len(ss)))

\* str.upper() of a character below U+0100, others as they are
UpperChar(c) ==
    IF c >= 97 /\ c <= 122 THEN <<c - 32>>
    ELSE IF c = 181 THEN <<924>>
    ELSE IF c = 223 THEN <<83, 83>>
    ELSE IF c >= 224 /\ c <= 254 /\ c # 247 THEN <<c - 32>>
    ELSE IF c = 255 THEN <<376>>
    ELSE <<c>>

\* str.upper()
upper(s) == Concat([i \in DOMAIN s |-> UpperChar(s[i])])

\* Param.num_elements, Param.total_bytes
num_elements(p) == Prod(p.dimensions)
total_bytes(p) == num_elements(p) * Abs(p.bytes_per_element)

\* Param.binary_size()
Param_binary_size(p) ==
    1 + 2 + 1 + Len(encode(p.name)) + 1 + 1 + Len(p.dimensions)
      + total_bytes(p) + 1 + Len(encode(p.desc))


\* Group.binary_size()
Group_binary_size(g) ==
    1 + 1 + Len(encode(g.name)) + 2 + 1 + Len(encode(g.desc))
      + Sum([i \in DOMAIN g.params |-> Param_binary_size(g.params[i])])

\* (mutant) the offset counts the characters of the name, not its bytes
Param_write_CharCount(p, group_id) ==
    LET name == encode(p.name)
        desc == encode(p.desc)
    IN PackI8(Len(name)) \o PackI8(group_id) \o name
       \o PackI16(Param_binary_size(p) - 2 - Len(p.name))
       \o PackI8(p.bytes_per_element)
       \o <<Len(p.dimensions)>> \o p.dimensions
       \o p.bytes
       \o <<Len(desc)>> \o desc

\* Param.write(group_id, handle): the bytes written
Param_write(p, group_id) ==
    LET name == encode(p.name)
        desc == encode(p.desc)
    IN PackI8(Len(name)) \o PackI8(group_id) \o name
       \o PackI16(Param_binary_size(p) - 2 - Len(name))
       \o PackI8(p.bytes_per_element)
       \o <<Len(p.dimensions)>> \o p.dimensions
       \o p.bytes
       \o <<Len(desc)>> \o desc

\* Group.write(group_id, handle): the bytes written
Group_write(g, group_id) ==
    LET name == encode(g.name)
        desc == encode(g.desc)
    IN PackI8(Len(name)) \o PackI8(0 - group_id) \o name
       \o PackI16(3 + Len(desc)) \o <<Len(desc)>> \o desc
       \o Concat([i \in DOMAIN g.params |-> Param_write(g.params[i], group_id)])

\* Group.add_param(name, desc=, bytes_per_element=, bytes=, dimensions=) as
\* the helpers add, add_str and add_empty_array of Writer.write call it
add(name, desc, bpe, bytes, dimensions) ==
    [name |-> upper(name), desc |-> desc, bytes_per_element |-> bpe,
     dimensions |-> dimensions, bytes |-> bytes]
add_str(name, desc, bytes, dimensions) ==
    add(name, desc, -1, encode(bytes), dimensions)
add_empty_array(name, desc, bpe) ==
    add(name, desc, bpe, <<>>, <<0>>)

\* np.max([len(label) for label in labels]) against 0
label_max_size(labels) ==
    SetMax({0} \cup {Len(labels[i]) : i \in DOMAIN labels})

\* analog.shape[0] and np.prod(analog.shape) of a frame's analog array
analog_rows(analog) == Len(analog)
analog_size(analog) == IF analog = <<>> THEN 0 ELSE Len(analog) * Len(analog[1])

\* the POINT group Writer.write builds
PointGroup(ppf, labels) ==
    \* 'POINT', 'POINT group'
    [name |-> upper(<<80, 79, 73, 78, 84>>), desc |-> <<80, 79, 73, 78, 84, 32, 103, 114, 111, 117, 112>>,
     params |-> <<
        \* 'USED', 'Number of 3d markers'
        add(<<85, 83, 69, 68>>, <<78, 117, 109, 98, 101, 114, 32, 111, 102, 32, 51, 100, 32, 109, 97, 114, 107, 101, 114, 115>>, 2, PackU16(ppf), <<>>),
        \* 'FRAMES', 'frame count'
        add(<<70, 82, 65, 77, 69, 83>>, <<102, 114, 97, 109, 101, 32, 99, 111, 117, 110, 116>>, 2,
            PackU16(IF Len(w_frames) > 65535 THEN 65535 ELSE Len(w_frames)), <<>>),
        \* 'DATA_START', 'data block number'
        add(<<68, 65, 84, 65, 95, 83, 84, 65, 82, 84>>, <<100, 97, 116, 97, 32, 98, 108, 111, 99, 107, 32, 110, 117, 109, 98, 101, 114>>, 2, PackU16(0), <<>>),
        \* 'SCALE', '3d scale factor'
        add(<<83, 67, 65, 76, 69>>, <<51, 100, 32, 115, 99, 97, 108, 101, 32, 102, 97, 99, 116, 111, 114>>, 4, PackF32(writer.point_scale), <<>>),
        \* 'RATE', '3d data capture rate'
        add(<<82, 65, 84, 69>>, <<51, 100, 32, 100, 97, 116, 97, 32, 99, 97, 112, 116, 117, 114, 101, 32, 114, 97, 116, 101>>, 4, PackF32(writer.point_rate), <<>>),
        \* 'X_SCREEN', 'X_SCREEN parameter', '+X'
        add_str(<<88, 95, 83, 67, 82, 69, 69, 78>>, <<88, 95, 83, 67, 82, 69, 69, 78, 32, 112, 97, 114, 97, 109, 101, 116, 101, 114>>, <<43, 88>>, <<2>>),
        \* 'Y_SCREEN', 'Y_SCREEN parameter', '+Y'
        add_str(<<89, 95, 83, 67, 82, 69, 69, 78>>, <<89, 95, 83, 67, 82, 69, 69, 78, 32, 112, 97, 114, 97, 109, 101, 116, 101, 114>>, <<43, 89>>, <<2>>),
        \* 'UNITS', '3d data units'
        add_str(<<85, 78, 73, 84, 83>>, <<51, 100, 32, 100, 97, 116, 97, 32, 117, 110, 105, 116, 115>>,
                writer.point_units, <<Len(writer.point_units)>>),
        \* 'LABELS', 'labels'
        add_str(<<76, 65, 66, 69, 76, 83>>, <<108, 97, 98, 101, 108, 115>>,
                Concat([i \in 1..ppf |-> ljust(labels[i], label_max_size(labels))]),
                <<label_max_size(labels), ppf>>),
        \* 'DESCRIPTIONS', 'descriptions'
        add_str(<<68, 69, 83, 67, 82, 73, 80, 84, 73, 79, 78, 83>>, <<100, 101, 115, 99, 114, 105, 112, 116, 105, 111, 110, 115>>,
                [i \in 1..(16 * ppf) |-> 32], <<16, ppf>>) >>]

\* the ANALOG group
AnalogGroup(analog) ==
    \* 'ANALOG', 'ANALOG group'
    [name |-> upper(<<65, 78, 65, 76, 79, 71>>), desc |-> <<65, 78, 65, 76, 79, 71, 32, 103, 114, 111, 117, 112>>,
     params |-> <<
        \* 'USED', 'analog channel count'
        add(<<85, 83, 69, 68>>, <<97, 110, 97, 108, 111, 103, 32, 99, 104, 97, 110, 110, 101, 108, 32, 99, 111, 117, 110, 116>>, 2, PackU16(analog_rows(analog)), <<>>),
        \* 'RATE', 'analog samples per second'
        add(<<82, 65, 84, 69>>, <<97, 110, 97, 108, 111, 103, 32, 115, 97, 109, 112, 108, 101, 115, 32, 112, 101, 114, 32, 115, 101, 99, 111, 110, 100>>, 4, PackF32(writer.analog_rate), <<>>),
        \* 'GEN_SCALE', 'analog general scale factor'
        add(<<71, 69, 78, 95, 83, 67, 65, 76, 69>>, <<97, 110, 97, 108, 111, 103, 32, 103, 101, 110, 101, 114, 97, 108, 32, 115, 99, 97, 108, 101, 32, 102, 97, 99, 116, 111, 114>>, 4,
            PackF32(writer.gen_scale), <<>>),
        \* 'SCALE', 'analog channel scale factors'
        add_empty_array(<<83, 67, 65, 76, 69>>, <<97, 110, 97, 108, 111, 103, 32, 99, 104, 97, 110, 110, 101, 108, 32, 115, 99, 97, 108, 101, 32, 102, 97, 99, 116, 111, 114, 115>>, 4),
        \* 'OFFSET', 'analog channel offsets'
        add_empty_array(<<79, 70, 70, 83, 69, 84>>, <<97, 110, 97, 108, 111, 103, 32, 99, 104, 97, 110, 110, 101, 108, 32, 111, 102, 102, 115, 101, 116, 115>>, 2) >>]

\* the TRIAL group
TrialGroup ==
    \* 'TRIAL', 'TRIAL group'
    [name |-> upper(<<84, 82, 73, 65, 76>>), desc |-> <<84, 82, 73, 65, 76, 32, 103, 114, 111, 117, 112>>,
     params |-> <<
        \* 'ACTUAL_START_FIELD', 'actual start frame'
        add(<<65, 67, 84, 85, 65, 76, 95, 83, 84, 65, 82, 84, 95, 70, 73, 69, 76, 68>>, <<97, 99, 116, 117, 97, 108, 32, 115, 116, 97, 114, 116, 32, 102, 114, 97, 109, 101>>, 2, PackU32(1), <<2>>),
        \* 'ACTUAL_END_FIELD', 'actual end frame'
        add(<<65, 67, 84, 85, 65, 76, 95, 69, 78, 68, 95, 70, 73, 69, 76, 68>>, <<97, 99, 116, 117, 97, 108, 32, 101, 110, 100, 32, 102, 114, 97, 109, 101>>, 2,
            PackU32(Len(w_frames)), <<2>>) >>]


\* key in self._groups, for the dictionary of the Writer
HasKey(keys, t, v) == \E i \in DOMAIN keys : keys[i].t = t /\ keys[i].v = v

\* self._groups[key]
GroupOf(keys, objs, t, v) ==
    objs[keys[(CHOOSE i \in DOMAIN keys : keys[i].t = t /\ keys[i].v = v)].ref]

\* Manager.add_group(group_id, name, desc) on the Writer, with the parameters
\* the caller then adds to the Group it returns: KeyError if one of the two
\* keys is taken, else the name and then the number are bound to the new Group
WriterAddGroup(m, group_id, g) ==
    IF m.raised # "none" THEN m
    ELSE IF HasKey(m.keys, "int", group_id) \/ HasKey(m.keys, "str", g.name)
    THEN [m EXCEPT !.raised = "KeyError"]
    ELSE [raised |-> "none",
          keys |-> m.keys \o <<[t |-> "str", v |-> g.name, ref |-> Len(m.objs) + 1],
                               [t |-> "int", v |-> group_id, ref |-> Len(m.objs) + 1]>>,
          objs |-> Append(m.objs, g)]

\* np.ceil(a / b) of positive integers
Ceil(a, b) == (a + b - 1) \div b

\* (mutant) every Group is counted once
parameter_blocks_Once(keys, objs) ==
    Ceil(4 + Sum([i \in DOMAIN objs |-> Group_binary_size(objs[i])]), BlockSize)

\* Manager.parameter_blocks(): the sum runs over self._groups.values()
parameter_blocks(keys, objs) ==
    Ceil(4 + Sum([i \in DOMAIN keys |-> Group_binary_size(objs[keys[i].ref])]),
         BlockSize)

\* self.get('POINT:DATA_START').bytes = bytes
SetDataStart(keys, objs, bytes) ==
    \* 'POINT', 'DATA_START'
    LET r == keys[(CHOOSE i \in DOMAIN keys :
                 \* 'POINT'
                 keys[i].t = "str" /\ keys[i].v = <<80, 79, 73, 78, 84>>)].ref
        g == objs[r]
    IN [objs EXCEPT ![r].params =
           [i \in DOMAIN g.params |->
               \* 'DATA_START'
               IF g.params[i].name = <<68, 65, 84, 65, 95, 83, 84, 65, 82, 84>>
               THEN [g.params[i] EXCEPT !.bytes = bytes]
               ELSE g.params[i]]]

\* Manager.group_listed(): the numerical keys in ascending order
RECURSIVE SortKeys(_)
SortKeys(S) ==
    IF S = {} THEN <<>>
    ELSE LET k == CHOOSE x \in S : \A y \in S : x.v <= y.v
         IN <<k>> \o SortKeys(S \ {k})
group_listed(keys) ==
    SortKeys({keys[i] : i \in {j \in DOMAIN keys : keys[j].t = "int"}})

\* the header fields Writer.write sets before it writes
SyncHeader(h, blocks, ppf, analog) ==
    [h EXCEPT !.data_block = 2 + blocks,
              !.frame_rate = writer.point_rate,
              !.last_frame = IF Len(w_frames) > 65535 THEN 65535 ELSE Len(w_frames),
              !.point_count = ppf,
              !.analog_count = analog_size(analog),
              !.analog_per_frame = writer.analog_rate \div writer.point_rate,
              !.scale_factor = writer.point_scale]

\* Manager._check_metadata on the Writer: the two assertions that can fail
\* (analog rate ratio, analog count); POINT:USED, POINT:SCALE and POINT:RATE
\* were written from the values the header got
check_metadata(h, analog) ==
    /\ writer.analog_rate % writer.point_rate = 0
    /\ h.analog_count = analog_rows(analog) * h.analog_per_frame

PROCESSOR_INTEL == 84
PROCESSOR_DEC == 85
PROCESSOR_MIPS == 86

\* Header.write(handle): 512 bytes
Header_write(h) ==
    <<h.parameter_block, 80>> \o PackU16(h.point_count) \o PackU16(h.analog_count)
    \o PackU16(h.first_frame) \o PackU16(h.last_frame) \o PackU16(h.max_gap)
    \o PackF32(h.scale_factor) \o PackU16(h.data_block)
    \o PackU16(h.analog_per_frame) \o PackF32(h.frame_rate)
    \o Zeros(274) \o PackU16(0) \o PackU16(0) \o PackU16(0) \o Zeros(164) \o Zeros(44)

\* Writer._pad_block(handle): the zeros written with the handle at tell
pad_block(tell) == IF tell % BlockSize # 0 THEN Zeros(BlockSize - (tell % BlockSize)) ELSE <<>>

\* the header, the prologue and the groups, padded to a block
MetadataBytes(h, keys, objs) ==
    LET listed == group_listed(keys)
        body == Header_write(h)
                \o <<0, 0, parameter_blocks(keys, objs), PROCESSOR_INTEL>>
                \o Concat([i \in DOMAIN listed |->
                              Group_write(objs[listed[i].ref], listed[i].v)])
    IN body \o pad_block(Len(body))

\* numpy: a float stored into an integer array (truncation)
Trunc(a, b) == IF a < 0 THEN 0 - ((0 - a) \div b) ELSE a \div b

\* (points[valid, 4]).astype(np.uint8) << 8: an 8-bit value shifted in 8 bits
CameraBits(cam) == ((cam % 256) * 256) % 256

\* a | b of unsigned integers
RECURSIVE BitOr(_, _)
BitOr(a, b) ==
    IF a = 0 THEN b
    ELSE IF b = 0 THEN a
    ELSE (IF a % 2 = 1 \/ b % 2 = 1 THEN 1 ELSE 0) + 2 * BitOr(a \div 2, b \div 2)

\* one pass of the loop of _write_frames over the array raw, for one point row
RawRow(old, pt, is_float, scale) ==
    IF pt[4] > -1
    THEN <<IF is_float THEN pt[1] ELSE Trunc(pt[1], scale),
           IF is_float THEN pt[2] ELSE Trunc(pt[2], scale),
           IF is_float THEN pt[3] ELSE Trunc(pt[3], scale),
           BitOr(CameraBits(pt[5]), Trunc(pt[4], scale))>>
    ELSE <<old[1], old[2], old[3], -1>>

\* array.array(point_format) of raw.flatten(), tofile(handle): four words a
\* point, each of 4 bytes with 'f' and with 'i' alike
PointWords(raw, is_float) ==
    Concat([i \in DOMAIN raw |->
        Concat([j \in 1..4 |-> IF is_float THEN PackF32(raw[i][j]) ELSE PackI32(raw[i][j])])])

\* analog = array.array(point_format); analog.extend(analog); analog.tofile(handle):
\* the new local array is extended by itself, which is empty
AnalogWords(analog) == <<>>

\* Writer._write_frames(handle): the array raw after each pass of the loop,
\* raw being the array np.empty returned, which every pass overwrites
RECURSIVE RawFrames(_, _, _, _)
RawFrames(fs, raw, is_float, scale) ==
    IF fs = <<>> THEN <<>>
    ELSE LET pts == Head(fs).points
             new == [i \in DOMAIN raw |-> RawRow(raw[i], pts[i], is_float, scale)]
         IN <<new>> \o RawFrames(Tail(fs), new, is_float, scale)

\* np.empty((self.point_used, 4), point_dtype)
np_empty(ppf, junk) == [i \in 1..ppf |-> <<junk, junk, junk, junk>>]

\* the bytes of the frames, and the padding after them
write_frames(tell, junk) ==
    LET is_float == writer.point_scale < 0
        raws == RawFrames(w_frames, np_empty(Len(w_frames[1].points), junk),
                          is_float, Abs(writer.point_scale))
        body == Concat([k \in DOMAIN raws |->
                    PointWords(raws[k], is_float) \o AnalogWords(w_frames[k].analog)])
    IN body \o pad_block(tell + Len(body))

\* (mutant) the header is written before the metadata is checked
write_HeaderFirst(labels, junk) ==
    LET points == w_frames[1].points
        analog == w_frames[1].analog
        ppf == Len(points)
        m0 == [raised |-> "none", keys |-> w_keys, objs |-> w_objs]
        m1 == WriterAddGroup(m0, 1, PointGroup(ppf, labels))
        m2 == WriterAddGroup(m1, 2, AnalogGroup(analog))
        m3 == WriterAddGroup(m2, 3, TrialGroup)
        blocks == parameter_blocks(m3.keys, m3.objs)
        objs == SetDataStart(m3.keys, m3.objs, PackU16(2 + blocks))
        h == SyncHeader(w_header, blocks, ppf, analog)
        metadata == MetadataBytes(h, m3.keys, objs)
    IN IF m3.raised # "none"
       THEN [pc |-> m3.raised, keys |-> m3.keys, objs |-> m3.objs,
             header |-> w_header, handle |-> handle, tell |-> position]
       ELSE IF ~check_metadata(h, analog)
       THEN [pc |-> "AssertionError", keys |-> m3.keys, objs |-> objs,
             header |-> h, handle |-> Header_write(h), tell |-> BlockSize]
       ELSE IF Len(metadata) > BlockSize * (h.data_block - 1)
       THEN \* while handle.tell() != 512 * (data_block - 1): never equal
            [pc |-> "diverges", keys |-> m3.keys, objs |-> objs,
             header |-> h, handle |-> metadata, tell |-> Len(metadata)]
       ELSE LET padded == metadata \o Zeros(BlockSize * (h.data_block - 1) - Len(metadata))
                written == padded \o write_frames(Len(padded), junk)
            IN [pc |-> "returned", keys |-> m3.keys, objs |-> objs, header |-> h,
                handle |-> written, tell |-> Len(written)]

\* Writer.write(handle, labels) with frames buffered: what it leaves behind.
\* junk is what the uninitialised array of np.empty holds; tell is where
\* the call leaves the handle (Header.write is the first to seek, to 0).
write(labels, junk) ==
    LET points == w_frames[1].points
        analog == w_frames[1].analog
        ppf == Len(points)
        m0 == [raised |-> "none", keys |-> w_keys, objs |-> w_objs]
        m1 == WriterAddGroup(m0, 1, PointGroup(ppf, labels))
        m2 == WriterAddGroup(m1, 2, AnalogGroup(analog))
        m3 == WriterAddGroup(m2, 3, TrialGroup)
        blocks == parameter_blocks(m3.keys, m3.objs)
        objs == SetDataStart(m3.keys, m3.objs, PackU16(2 + blocks))
        h == SyncHeader(w_header, blocks, ppf, analog)
        metadata == MetadataBytes(h, m3.keys, objs)
    IN IF m3.raised # "none"
       THEN [pc |-> m3.raised, keys |-> m3.keys, objs |-> m3.objs,
             header |-> w_header, handle |-> handle, tell |-> position]
       ELSE IF ~check_metadata(h, analog)
       THEN \* self._check_metadata() is the first statement of _write_metadata
            [pc |-> "AssertionError", keys |-> m3.keys, objs |-> objs,
             header |-> h, handle |-> handle, tell |-> position]
       ELSE IF Len(metadata) > BlockSize * (h.data_block - 1)
       THEN \* while handle.tell() != 512 * (data_block - 1): never equal
            [pc |-> "diverges", keys |-> m3.keys, objs |-> objs,
             header |-> h, handle |-> metadata, tell |-> Len(metadata)]
       ELSE LET padded == metadata \o Zeros(BlockSize * (h.data_block - 1) - Len(metadata))
                written == padded \o write_frames(Len(padded), junk)
            IN [pc |-> "returned", keys |-> m3.keys, objs |-> objs, header |-> h,
                handle |-> written, tell |-> Len(written)]

\* the frames handed to add_frames: points are rows (x, y, z, residual,
\* cameras), analog is an array of analog_used rows
MaxFrames == 2
MaxLabel == 240

Frames ==
    {[points |-> <<<<1, 2, 3, 0, 0>>, <<4, 5, 6, 2, 3>>, <<7, 8, 9, -1, 0>>>>, analog |-> <<>>],
     [points |-> <<<<-3, 5, 0, 4, 7>>, <<7, 8, 9, -1, -1>>, <<2, 2, 2, 0, 1>>>>, analog |-> <<>>],
     [points |-> <<<<1, 2, 3, 0, 0>>, <<4, 6, 8, 2, 1>>>>, analog |-> <<>>],
     [points |-> <<<<1, 2, 3, 0, 0>>>>, analog |-> <<<<10, 11>>>>]}

RECURSIVE SeqsUpTo(_, _)
SeqsUpTo(S, n) ==
    IF n = 0 THEN {<<>>}
    ELSE LET shorter == SeqsUpTo(S, n - 1)
         IN shorter \cup {Append(s, x) : s \in shorter, x \in S}

FrameBatches ==
    {b \in SeqsUpTo(Frames, MaxFrames) :
        b # <<>> /\ \A i \in DOMAIN b : Len(b[i].points) = Len(b[1].points)}

\* the labels handed to write: 'A', 'B', 'C'; a label with an accent; two
\* long labels of characters outside the Basic Multilingual Plane
LabelInputs ==
    {<<<<65>>, <<66>>, <<67>>>>,
     <<<<233>>, <<66>>, <<67>>>>,
     <<[i \in 1..MaxLabel |-> 128512], [i \in 1..MaxLabel |-> 128512]>>}

\* what uninitialised memory may hold
Junk == {0, 99}

\* where the handle given to write() stands before the call
SinkStarts == {0, 7}

\* the Writers constructed
InitWriter ==
    /\ InitManager
    /\ dtypes = TRUE
    /\ header = [first_frame |-> 1, last_frame |-> 1, data_block |-> 3]
    /\ params = [n \in ParamPaths |-> NoParam]
    /\ meta = [point_used |-> 0, point_scale |-> -1, analog_used |-> 0, analog_per_frame |-> 0]
    /\ file_size = 0
    /\ position \in SinkStarts
    /\ pc = "none"
    /\ frame_no = 0
    /\ second = NoGenerator
    /\ frames = <<>>
    /\ warned = {}
    \* 'mm  ', 'µm  '
    /\ writer \in [point_rate : {480}, analog_rate : {0, 720, 960},
                    point_scale : {-2, -1, 1, 2},
                    \* 'mm  ', 'µm  '
                    point_units : { <<109, 109, 32, 32>>, <<181, 109, 32, 32>> }, gen_scale : {1}]
    /\ w_frames = <<>>
    /\ w_keys = <<>>
    /\ w_objs = <<>>
    /\ w_header = DefaultHeader
    /\ handle = <<>>
    /\ w_pc = "new"
    /\ r_groups = NoReader

\* Writer.add_frames(frames)
AddFrames ==
    /\ w_pc # "diverges"
    /\ \E batch \in FrameBatches :
          /\ Len(w_frames) + Len(batch) <= MaxFrames
          /\ w_frames # <<>> => Len(batch[1].points) = Len(w_frames[1].points)
          /\ w_frames' = w_frames \o batch
    /\ w_pc' = "added"
    /\ UNCHANGED <<writer, w_keys, w_objs, w_header, handle, r_groups>>
    /\ UNCHANGED <<managerVars, readerVars>>

\* Writer.write(handle, labels); the handle is the same at every call
Write ==
    /\ w_pc # "diverges"
    /\ IF w_frames = <<>>
       THEN \* if not self._frames: return
            /\ w_pc' = "returned"
            /\ UNCHANGED <<w_keys, w_objs, w_header, handle, position>>
       ELSE \E labels \in LabelInputs, junk \in Junk :
               /\ Len(labels) >= Len(w_frames[1].points)
               /\ \E e \in {write(labels, junk)} :
                     /\ w_pc' = e.pc
                     /\ w_keys' = e.keys
                     /\ w_objs' = e.objs
                     /\ w_header' = e.header
                     /\ handle' = e.handle
                     /\ position' = e.tell
    /\ UNCHANGED <<writer, w_frames, r_groups>>
    /\ UNCHANGED <<header, params, meta, file_size, pc, frame_no, frames, warned, second>>
    /\ UNCHANGED managerVars

(***************************************************************************)
(* Reader.__init__ on the handle a Writer wrote to                         *)
(***************************************************************************)
\* handle.read(n) with the handle at pos (n < 0 reads to the end)
Read(bs, pos, n) ==
    IF pos >= Len(bs) THEN <<>>
    ELSE IF n < 0 \/ pos + n > Len(bs) THEN SubSeq(bs, pos + 1, Len(bs))
    ELSE SubSeq(bs, pos + 1, pos + n)

\* struct.unpack('b', ...), struct.unpack('<h', ...)
Signed8(b) == IF b >= 128 THEN b - 256 ELSE b
Signed16(bs) == LET n == bs[1] + 256 * bs[2] IN IF n >= 32768 THEN n - 65536 ELSE n

\* UTF-8: a continuation byte; the length of the character a byte starts
\* (0 for a byte that starts none); the character at i is well formed
IsCont(bs, i) == i <= Len(bs) /\ bs[i] >= 128 /\ bs[i] <= 191
Utf8Len(b) ==
    IF b < 128 THEN 1
    ELSE IF b >= 194 /\ b <= 223 THEN 2
    ELSE IF b >= 224 /\ b <= 239 THEN 3
    ELSE IF b >= 240 /\ b <= 244 THEN 4
    ELSE 0
Utf8Ok(bs, i) ==
    LET b == bs[i]
        n == Utf8Len(b)
    IN /\ n > 0
       /\ \A k \in 1..(n - 1) : IsCont(bs, i + k)
       /\ ~IsCont(bs, i + n)
       /\ b = 224 => bs[i + 1] >= 160
       /\ b = 237 => bs[i + 1] <= 159
       /\ b = 240 => bs[i + 1] >= 144
       /\ b = 244 => bs[i + 1] <= 143
Utf8Point(bs, i) ==
    LET b == bs[i]
        n == Utf8Len(b)
    IN CASE n = 1 -> b
         [] n = 2 -> (b - 192) * 64 + (bs[i + 1] - 128)
         [] n = 3 -> (b - 224) * 4096 + (bs[i + 1] - 128) * 64 + (bs[i + 2] - 128)
         [] OTHER -> (b - 240) * 262144 + (bs[i + 1] - 128) * 4096
                     + (bs[i + 2] - 128) * 64 + (bs[i + 3] - 128)

\* the characters that start in bs[lo..hi]
RECURSIVE Utf8Points(_, _, _)
Utf8Points(bs, lo, hi) ==
    IF lo > hi THEN <<>>
    ELSE IF lo = hi THEN (IF IsCont(bs, lo) THEN <<>> ELSE <<Utf8Point(bs, lo)>>)
    ELSE LET mid == (lo + hi) \div 2
         IN Utf8Points(bs, lo, mid) \o Utf8Points(bs, mid + 1, hi)

\* codecs.decode(bytes, 'utf-8'): the code points, or <<-1>> where the bytes
\* are not valid UTF-8
Utf8Decode(bs) ==
    IF \A i \in DOMAIN bs : bs[i] < 128 THEN bs
    ELSE IF ~IsCont(bs, 1) /\ \A i \in DOMAIN bs : IsCont(bs, i) \/ Utf8Ok(bs, i)
    THEN Utf8Points(bs, 1, Len(bs))
    ELSE <<-1>>

\* DataTypes.decode_string: UTF-8, and Latin-1 where that fails
decode_string(bs) ==
    LET text == Utf8Decode(bs) IN IF text = <<-1>> THEN bs ELSE text

\* str(n) of a positive integer
RECURSIVE Digits(_)
Digits(n) == IF n < 10 THEN <<48 + n>> ELSE Digits(n \div 10) \o <<48 + (n % 10)>>

\* the name of a Group() that was given none
NoName == <<-1>>

\* self._groups[key] = the Group ref: a bound key keeps its place
DictSet(keys, t, v, ref) ==
    IF HasKey(keys, t, v)
    THEN [i \in DOMAIN keys |->
             IF keys[i].t = t /\ keys[i].v = v THEN [keys[i] EXCEPT !.ref = ref]
             ELSE keys[i]]
    ELSE Append(keys, [t |-> t, v |-> v, ref |-> ref])

\* del self._groups[key]
DictDel(keys, t, v) ==
    LET keep == {i \in DOMAIN keys : ~(keys[i].t = t /\ keys[i].v = v)}
        RECURSIVE Pick(_)
        Pick(i) == IF i > Len(keys) THEN <<>>
                   ELSE (IF i \in keep THEN <<keys[i]>> ELSE <<>>) \o Pick(i + 1)
    IN Pick(1)

\* Python integers are unbounded: the product of a parameter's dimensions is
\* kept as six limbs of 15 bits, least significant first, the top limb
\* saturating
Limb == 32768

BigOne == <<1, 0, 0, 0, 0, 0>>

\* e *= d on the limbs
BigTimes(x, d) ==
    LET RECURSIVE Go(_, _)
        Go(i, carry) ==
            LET v == x[i] * d + carry
            IN IF i = Len(x) THEN <<IF v >= Limb THEN Limb - 1 ELSE v>>
               ELSE <<v % Limb>> \o Go(i + 1, v \div Limb)
    IN Go(1, 0)

\* the value is above sys.maxsize = 2^63 - 1, the largest size a read() takes
AboveMaxsize(x) == x[6] > 0 \/ x[5] >= 8

\* the value as a number, cut off at cap
BigUpTo(x, cap) ==
    IF x[3] > 0 \/ x[4] > 0 \/ x[5] > 0 \/ x[6] > 0 THEN cap
    ELSE IF x[1] + x[2] * Limb > cap THEN cap
    ELSE x[1] + x[2] * Limb

\* Param.total_bytes of the dimensions and element size just read
BigTotalBytes(dims, bpe) ==
    LET fs == SelectSeq(dims, LAMBDA d : d # 1) \o <<Abs(bpe)>>
        RECURSIVE Go(_, _)
        Go(i, acc) == IF i > Len(fs) \/ AboveMaxsize(acc) THEN acc
                      ELSE Go(i + 1, BigTimes(acc, fs[i]))
    IN IF \E i \in DOMAIN fs : fs[i] = 0 THEN <<0, 0, 0, 0, 0, 0>>
       ELSE Go(1, BigOne)

\* Param(name, dtypes, handle=buf): Param.read on the bytes of one entry;
\* struct.unpack of a read that came back empty raises struct.error, and
\* handle.read of a size above sys.maxsize raises OverflowError
Param_read(name, buf) ==
    LET bpe == Signed8(buf[1])
        nd == buf[2]
        dims == Read(buf, 2, nd)
        big == BigTotalBytes(dims, bpe)
        total == BigUpTo(big, Len(buf) + 1)
        bytes == IF total # 0 THEN Read(buf, 2 + nd, total) ELSE <<>>
        at == 2 + nd + Len(bytes)
        desc_size == buf[at + 1]
    IN IF Len(buf) < 2 \/ Len(dims) < nd THEN [raised |-> "struct.error"]
       ELSE IF AboveMaxsize(big) THEN [raised |-> "OverflowError"]
       ELSE IF at >= Len(buf) THEN [raised |-> "struct.error"]
       ELSE [raised |-> "none",
             param |-> [name |-> name,
                        desc |-> IF desc_size # 0
                                 THEN decode_string(Read(buf, at + 1, desc_size))
                                 ELSE <<>>,
                        bytes_per_element |-> bpe, dimensions |-> dims,
                        bytes |-> bytes]]

\* Group.add_param: self._params[name.upper()] = Param(name.upper(), ...)
GroupAddParam(g, p) ==
    LET q == [p EXCEPT !.name = upper(p.name)]
    IN IF \E i \in DOMAIN g.params : g.params[i].name = q.name
       THEN [g EXCEPT !.params = [i \in DOMAIN g.params |->
                                     IF g.params[i].name = q.name THEN q
                                     ELSE g.params[i]]]
       ELSE [g EXCEPT !.params = Append(g.params, q)]

\* a parameter entry: self._groups.setdefault(group_id, Group(self._dtypes))
\*                        .add_param(name, handle=buf)
ReadParamEntry(r, group_id, name, buf) ==
    LET p == Param_read(name, buf)
        known == HasKey(r.keys, "int", group_id)
        ref == IF known
               THEN r.keys[(CHOOSE i \in DOMAIN r.keys :
                               r.keys[i].t = "int" /\ r.keys[i].v = group_id)].ref
               ELSE Len(r.objs) + 1
        objs == IF known THEN r.objs
                ELSE Append(r.objs, [name |-> NoName, desc |-> <<>>, params |-> <<>>])
        keys == IF known THEN r.keys
                ELSE Append(r.keys, [t |-> "int", v |-> group_id, ref |-> ref])
    IN IF p.raised # "none"
       THEN [r EXCEPT !.raised = p.raised, !.keys = keys, !.objs = objs]
       ELSE [r EXCEPT !.keys = keys,
                      !.objs = [objs EXCEPT ![ref] = GroupAddParam(objs[ref], p.param)]]

\* (mutant) a group entry for a number that is bound already binds the name
\* and leaves the Group without it
ReadGroupEntry_Unnamed(r, group_id, name, buf) ==
    LET size == buf[1]
        desc == IF size # 0 THEN Read(buf, 1, size) ELSE <<>>
        known == HasKey(r.keys, "int", group_id)
        ref == r.keys[(CHOOSE i \in DOMAIN r.keys :
                          r.keys[i].t = "int" /\ r.keys[i].v = group_id)].ref
        new_name == IF HasKey(r.keys, "str", upper(name))
                    THEN upper(name) \o Digits(group_id) ELSE upper(name)
        new_ref == Len(r.objs) + 1
    IN IF Len(buf) < 1 THEN [r EXCEPT !.raised = "struct.error"]
       ELSE IF known
       THEN IF HasKey(r.keys, "str", name)
            THEN [r EXCEPT !.raised = "ValueError"]
            ELSE [r EXCEPT !.keys = DictSet(r.keys, "str", name, ref),
                           !.objs = [r.objs EXCEPT ![ref].desc = desc]]
       ELSE [r EXCEPT
               !.keys = DictSet(DictSet(r.keys, "str", new_name, new_ref),
                                "int", group_id, new_ref),
               !.objs = Append(r.objs, [name |-> new_name, desc |-> desc,
                                        params |-> <<>>])]

\* a group entry: rename_group(group, name) if the number is bound already,
\* else add_group(group_id, name, desc, rename_duplicated_groups=True)
ReadGroupEntry(r, group_id, name, buf) ==
    LET size == buf[1]
        desc == IF size # 0 THEN Read(buf, 1, size) ELSE <<>>
        known == HasKey(r.keys, "int", group_id)
        ref == r.keys[(CHOOSE i \in DOMAIN r.keys :
                          r.keys[i].t = "int" /\ r.keys[i].v = group_id)].ref
        old == r.objs[ref].name
        unbound == IF HasKey(r.keys, "str", old) THEN DictDel(r.keys, "str", old)
                   ELSE r.keys
        new_name == IF HasKey(r.keys, "str", upper(name))
                    THEN upper(name) \o Digits(group_id) ELSE upper(name)
        new_ref == Len(r.objs) + 1
    IN IF Len(buf) < 1 THEN [r EXCEPT !.raised = "struct.error"]
       ELSE IF known
       THEN IF HasKey(r.keys, "str", name)
            THEN [r EXCEPT !.raised = "ValueError"]
            ELSE [r EXCEPT !.keys = DictSet(unbound, "str", name, ref),
                           !.objs = [r.objs EXCEPT ![ref].name = name,
                                                   ![ref].desc = desc]]
       ELSE [r EXCEPT
               !.keys = DictSet(DictSet(r.keys, "str", new_name, new_ref),
                                "int", group_id, new_ref),
               !.objs = Append(r.objs, [name |-> new_name, desc |-> desc,
                                        params |-> <<>>])]

\* (mutant) offset_to_next 0 is read as any other offset
RECURSIVE Walk_NoLast(_, _, _, _)
Walk_NoLast(bs, r, pos, endbyte) ==
    IF r.raised # "none" \/ pos >= endbyte THEN r
    ELSE LET head == Read(bs, pos, 2)
             chars_in_name == Signed8(head[1])
             group_id == Signed8(head[2])
             raw_name == Read(bs, pos + 2, Abs(chars_in_name))
             name == upper(decode_string(raw_name))
             p1 == pos + 2 + Len(raw_name)
             word == Read(bs, p1, 2)
             \* ['<h', '>h'][self._dtypes.is_mips]
             offset_to_next == Signed16(IF r.proc = PROCESSOR_MIPS
                                        THEN <<word[2], word[1]>> ELSE word)
             bytes == Read(bs, p1 + 2, offset_to_next - 2)
             seen == [r EXCEPT !.entries = Append(r.entries, pos),
                               !.tell = p1 + 2 + Len(bytes)]
         IN IF Len(head) < 2
            THEN [r EXCEPT !.raised = "struct.error", !.tell = pos + Len(head)]
            ELSE IF group_id = 0 \/ chars_in_name = 0 THEN [r EXCEPT !.tell = pos + 2]
            ELSE IF Len(word) < 2
            THEN [r EXCEPT !.raised = "struct.error", !.tell = p1 + Len(word)]
            ELSE Walk_NoLast(bs,
                      IF group_id > 0
                      THEN ReadParamEntry(seen, group_id, name, bytes)
                      ELSE ReadGroupEntry(seen, 0 - group_id, name, bytes),
                      p1 + 2 + Len(bytes), endbyte)

\* the loop of Reader.__init__ over the parameter section, from the entry at
\* pos; entries collects the offsets at which an entry was read, and tell is
\* self._handle.tell() when the loop is left
RECURSIVE Walk(_, _, _, _)
Walk(bs, r, pos, endbyte) ==
    IF r.raised # "none" \/ pos >= endbyte THEN r
    ELSE LET head == Read(bs, pos, 2)
             chars_in_name == Signed8(head[1])
             group_id == Signed8(head[2])
             raw_name == Read(bs, pos + 2, Abs(chars_in_name))
             name == upper(decode_string(raw_name))
             p1 == pos + 2 + Len(raw_name)
             word == Read(bs, p1, 2)
             \* ['<h', '>h'][self._dtypes.is_mips]
             offset_to_next == Signed16(IF r.proc = PROCESSOR_MIPS
                                        THEN <<word[2], word[1]>> ELSE word)
             bytes == IF offset_to_next = 0
                      THEN Read(bs, p1 + 2, endbyte - (p1 + 2))
                      ELSE Read(bs, p1 + 2, offset_to_next - 2)
             seen == [r EXCEPT !.entries = Append(r.entries, pos),
                               !.tell = p1 + 2 + Len(bytes)]
         IN IF Len(head) < 2
            THEN [r EXCEPT !.raised = "struct.error", !.tell = pos + Len(head)]
            ELSE IF group_id = 0 \/ chars_in_name = 0 THEN [r EXCEPT !.tell = pos + 2]
            ELSE IF Len(word) < 2
            THEN [r EXCEPT !.raised = "struct.error", !.tell = p1 + Len(word)]
            ELSE Walk(bs,
                      IF group_id > 0
                      THEN ReadParamEntry(seen, group_id, name, bytes)
                      ELSE ReadGroupEntry(seen, 0 - group_id, name, bytes),
                      p1 + 2 + Len(bytes), endbyte)


\* struct.unpack('<H' or '>H', bs[at+1..at+2])
U16At(bs, at, mips) == IF mips THEN 256 * bs[at + 1] + bs[at + 2]
                       ELSE bs[at + 1] + 256 * bs[at + 2]

\* struct.pack("<I", uint_32) in UNPACK_FLOAT_IEEE, for the uint_32 unpacked
\* with '<I' or '>I' from bs[at+1..at+4]: the four bytes of the float, least
\* significant first
F32At(bs, at, mips) == IF mips THEN <<bs[at + 4], bs[at + 3], bs[at + 2], bs[at + 1]>>
                       ELSE SubSeq(bs, at + 1, at + 4)

\* Header.read(handle, fmt) with the little-endian or the big-endian format,
\* and the floats as _processor_convert unpacks them
Header_read(bs, mips) ==
    [parameter_block |-> bs[1], magic |-> bs[2],
     point_count |-> U16At(bs, 2, mips),
     analog_count |-> U16At(bs, 4, mips),
     first_frame |-> U16At(bs, 6, mips),
     last_frame |-> U16At(bs, 8, mips),
     max_gap |-> U16At(bs, 10, mips),
     scale_factor |-> F32At(bs, 12, mips),
     data_block |-> U16At(bs, 16, mips),
     analog_per_frame |-> U16At(bs, 18, mips),
     frame_rate |-> F32At(bs, 20, mips)]

\* Manager.get('GROUP:PARAM') on what the Reader holds: the parameters found
\* (none, or the one of that name)
ReaderGet(r, group, param) ==
    IF ~HasKey(r.keys, "str", group) THEN {}
    ELSE LET g == GroupOf(r.keys, r.objs, "str", group)
         IN {g.params[i] : i \in {j \in DOMAIN g.params : g.params[j].name = param}}

\* what the frame range and read_frames take of a parameter: NoParam where
\* get() returns None
AsPayload(ps, mips) ==
    IF ps = {} THEN NoParam
    ELSE LET p == CHOOSE q \in ps : TRUE
         IN [total_bytes |-> total_bytes(p), bytes |-> p.bytes, mips |-> mips]

\* a float of the file as the integer it is (rates and scales of the files
\* written here are integers)
FloatOf(bytes) == FloatInteger(Payload(bytes))

\* self.get(path) of the Reader r as a payload
ParamOf(r, group, param) == AsPayload(ReaderGet(r, group, param), r.proc = PROCESSOR_MIPS)

\* Manager.point_rate, point_scale, point_used, analog_used, analog_rate of
\* the Reader: the parameter, or the header field where get() returns None
ReaderPointRate(r, h) ==
    \* 'POINT', 'RATE'
    \* 'POINT', 'RATE'
    LET p == ParamOf(r, <<80, 79, 73, 78, 84>>, <<82, 65, 84, 69>>)
    IN IF p = NoParam THEN FloatOf(h.frame_rate) ELSE FloatInteger(p)
ReaderPointScale(r, h) ==
    \* 'POINT', 'SCALE'
    \* 'POINT', 'SCALE'
    LET p == ParamOf(r, <<80, 79, 73, 78, 84>>, <<83, 67, 65, 76, 69>>)
    IN IF p = NoParam THEN FloatOf(h.scale_factor) ELSE FloatInteger(p)
ReaderPointUsed(r, h) ==
    \* 'POINT', 'USED'
    \* 'POINT', 'USED'
    LET p == ParamOf(r, <<80, 79, 73, 78, 84>>, <<85, 83, 69, 68>>)
    IN IF p = NoParam THEN h.point_count ELSE uint16_value(p)
ReaderAnalogUsed(r, h) ==
    \* 'ANALOG', 'USED'
    \* 'ANALOG', 'USED'
    LET p == ParamOf(r, <<65, 78, 65, 76, 79, 71>>, <<85, 83, 69, 68>>)
    IN IF p = NoParam THEN h.analog_count ELSE uint16_value(p)
ReaderAnalogRate(r, h) ==
    \* 'ANALOG', 'RATE'
    \* 'ANALOG', 'RATE'
    LET p == ParamOf(r, <<65, 78, 65, 76, 79, 71>>, <<82, 65, 84, 69>>)
    IN IF p = NoParam THEN h.analog_per_frame * ReaderPointRate(r, h)
       ELSE FloatInteger(p)

\* Manager._check_metadata on the Reader: the five assertions
ReaderCheck(r, h) ==
    /\ h.point_count = ReaderPointUsed(r, h)
    /\ FloatOf(h.scale_factor) = ReaderPointScale(r, h)
    /\ FloatOf(h.frame_rate) = ReaderPointRate(r, h)
    /\ IF ReaderPointRate(r, h) # 0
       THEN h.analog_per_frame * ReaderPointRate(r, h) = ReaderAnalogRate(r, h)
       ELSE h.analog_per_frame = 0
    /\ h.analog_count = ReaderAnalogUsed(r, h) * h.analog_per_frame

\* Reader(handle) on the file bs: the header, the four bytes in front of the
\* parameters (the processor among them), the header as _processor_convert
\* leaves it, the walk over the entries, _check_metadata.  A processor that
\* is none of the three leaves float_unpack unbound; the files here are never
\* DEC files and carry no events
Reader(bs) ==
    LET h0 == Header_read(bs, FALSE)
        start_byte == (h0.parameter_block - 1) * BlockSize + 4
        parameter_blocks_read == bs[start_byte - 1]
        processor == bs[start_byte]
        h == IF processor = PROCESSOR_MIPS THEN Header_read(bs, TRUE) ELSE h0
        endbyte == start_byte + BlockSize * parameter_blocks_read - 4
        opened == [raised |-> "none", keys |-> <<>>, objs |-> <<>>, entries |-> <<>>,
                   proc |-> processor, header |-> h, tell |-> start_byte]
        r == Walk(bs, opened, start_byte, endbyte)
    IN IF h0.magic # 80
       THEN [NoReader EXCEPT !.raised = "AssertionError", !.tell = BlockSize]
       ELSE IF processor = PROCESSOR_DEC THEN [opened EXCEPT !.raised = "DEC"]
       ELSE IF processor \notin {PROCESSOR_INTEL, PROCESSOR_MIPS}
       THEN [opened EXCEPT !.raised = "UnboundLocalError"]
       ELSE IF r.raised = "none" /\ ~ReaderCheck(r, h)
       THEN [r EXCEPT !.raised = "AssertionError"]
       ELSE r

\* reader = Reader(handle) on a handle that holds a file: the one a write
\* that returned left in it, or the one it held from the start; the handle
\* is rewound for it
OpenReader ==
    /\ w_pc \in {"new", "returned"} /\ handle # <<>>
    /\ r_groups = NoReader
    /\ \E r \in {Reader(handle)} :
       LET h == r.header
           path(g, p) == ParamOf(r, g, p)
       IN /\ r_groups' = r
          /\ header' = [first_frame |-> h.first_frame, last_frame |-> h.last_frame,
                        data_block |-> h.data_block]
          /\ params' = [n \in ParamPaths |->
                 \* 'TRIAL', 'ACTUAL_START_FIELD', 'ACTUAL_END_FIELD'
                 \* 'TRIAL', 'ACTUAL_START_FIELD'
                 CASE n = "TRIAL:ACTUAL_START_FIELD" -> path(<<84, 82, 73, 65, 76>>, <<65, 67, 84, 85, 65, 76, 95, 83, 84, 65, 82, 84, 95, 70, 73, 69, 76, 68>>)
                   \* 'TRIAL', 'ACTUAL_END_FIELD'
                   [] n = "TRIAL:ACTUAL_END_FIELD" -> path(<<84, 82, 73, 65, 76>>, <<65, 67, 84, 85, 65, 76, 95, 69, 78, 68, 95, 70, 73, 69, 76, 68>>)
                   \* 'POINT', 'LONG_FRAMES', 'FRAMES'
                   \* 'POINT', 'LONG_FRAMES'
                   [] n = "POINT:LONG_FRAMES" -> path(<<80, 79, 73, 78, 84>>, <<76, 79, 78, 71, 95, 70, 82, 65, 77, 69, 83>>)
                   \* 'POINT', 'FRAMES'
                   [] n = "POINT:FRAMES" -> path(<<80, 79, 73, 78, 84>>, <<70, 82, 65, 77, 69, 83>>)
                   \* 'ANALOG', 'FORMAT', 'BITS'
                   \* 'ANALOG', 'FORMAT'
                   [] n = "ANALOG:FORMAT" -> path(<<65, 78, 65, 76, 79, 71>>, <<70, 79, 82, 77, 65, 84>>)
                   \* 'ANALOG', 'BITS'
                   [] n = "ANALOG:BITS" -> path(<<65, 78, 65, 76, 79, 71>>, <<66, 73, 84, 83>>)
                   \* 'SCALE', 'OFFSET'
                   [] n = "ANALOG:SCALE" -> path(<<65, 78, 65, 76, 79, 71>>, <<83, 67, 65, 76, 69>>)
                   [] n = "ANALOG:OFFSET" -> path(<<65, 78, 65, 76, 79, 71>>, <<79, 70, 70, 83, 69, 84>>)]
          /\ meta' = [point_used |-> ReaderPointUsed(r, h),
                      point_scale |-> ReaderPointScale(r, h),
                      analog_used |-> ReaderAnalogUsed(r, h),
                      analog_per_frame |-> ReaderAnalogRate(r, h) \div ReaderPointRate(r, h)]
          /\ position' = r.tell
    /\ file_size' = Len(handle)
    /\ UNCHANGED <<pc, frame_no, frames, warned, second>>
    /\ UNCHANGED <<writer, w_frames, w_keys, w_objs, w_header, handle, w_pc>>
    /\ UNCHANGED managerVars


\* np.frombuffer(raw_bytes, dtype) of the bytes of bs read at pos: word k
\* (from 0) as int16, and as float32 (the integer it holds), in the byte
\* order of the dtypes

\* (mutant) the words are taken in the Intel order whatever the processor
Int16At_Little(bs, mips, pos, k) ==
    Signed16(SubSeq(bs, pos + 2 * k + 1, pos + 2 * k + 2))
Int16At(bs, mips, pos, k) ==
    LET w == SubSeq(bs, pos + 2 * k + 1, pos + 2 * k + 2)
    IN Signed16(IF mips THEN <<w[2], w[1]>> ELSE w)
Float32At(bs, mips, pos, k) == FloatOf(F32At(bs, pos + 4 * k, mips))

\* sum((c & (1 << k)) >> k for k in range(8, 15))
RECURSIVE BitCount(_)
BitCount(n) == IF n = 0 THEN 0 ELSE (n % 2) + BitCount(n \div 2)
CameraCount(c) == BitCount((c \div 256) % 128)

\* c & 0xff for c >= 0 and for c < 0 (two's complement)
LowByte(c) == c % 256

\* read_frames: the row (x, y, z, residual, cameras) of point i in the
\* frame read at pos of the file bs, for the dtypes and POINT:SCALE of the
\* reader
PointRow(bs, mips, point_scale, pos, i) ==
    LET is_float == point_scale < 0
        scale_mag == Abs(point_scale)
        word(j) == IF is_float THEN Float32At(bs, mips, pos, 4 * (i - 1) + j)
                   ELSE Int16At(bs, mips, pos, 4 * (i - 1) + j)
        c == word(3)
        valid == IF is_float
                 THEN c >= 0 /\ (c \div 32768) % 2 = 0   \* (c & 0x80008000) == 0
                 ELSE c > -1
        coord(j) == IF is_float THEN word(j) ELSE word(j) * scale_mag
    IN <<coord(0), coord(1), coord(2),
         IF valid THEN LowByte(c) * scale_mag ELSE -1,
         IF valid THEN CameraCount(c) ELSE -1>>

\* the row of point i in the frame the reader of the handle read at pos
ReadPoint(pos, i) ==
    PointRow(handle, r_groups.proc = PROCESSOR_MIPS, meta.point_scale, pos, i)

\* points = np.zeros((self.point_used, 5), np.float32): the array every
\* frame is parsed into
np_zeros(point_used) == [i \in 1..point_used |-> <<0, 0, 0, 0, 0>>]

\* (mutant) the rows of invalid points are left as they were
ParseRow_KeepInvalid(old, bs, mips, point_scale, pos, i) ==
    LET is_float == point_scale < 0
        scale_mag == Abs(point_scale)
        word(j) == IF is_float THEN Float32At(bs, mips, pos, 4 * (i - 1) + j)
                   ELSE Int16At(bs, mips, pos, 4 * (i - 1) + j)
        c == word(3)
        valid == IF is_float THEN c >= 0 /\ (c \div 32768) % 2 = 0 ELSE c > -1
        read == IF is_float THEN <<word(0), word(1), word(2), word(3), old[5]>>
                ELSE <<word(0) * scale_mag, word(1) * scale_mag, word(2) * scale_mag,
                       old[4], old[5]>>
    IN IF valid
       THEN [read EXCEPT ![4] = LowByte(c) * scale_mag, ![5] = CameraCount(c)]
       ELSE read

\* one pass of the loop of read_frames over row i of the array points, old
\* being the row as the pass before left it: the assignments to the
\* coordinates, to the rows that are not valid and to the rows that are
ParseRow(old, bs, mips, point_scale, pos, i) ==
    LET is_float == point_scale < 0
        scale_mag == Abs(point_scale)
        word(j) == IF is_float THEN Float32At(bs, mips, pos, 4 * (i - 1) + j)
                   ELSE Int16At(bs, mips, pos, 4 * (i - 1) + j)
        \* last_word = points[:, 3].astype(np.int32), or raw[:, 3]
        c == word(3)
        valid == IF is_float
                 THEN c >= 0 /\ (c \div 32768) % 2 = 0   \* (c & 0x80008000) == 0
                 ELSE c > -1
        \* points[:, :4] = np.frombuffer(...), or points[:, :3] = raw[:, :3] * scale_mag
        read == IF is_float THEN <<word(0), word(1), word(2), word(3), old[5]>>
                ELSE <<word(0) * scale_mag, word(1) * scale_mag, word(2) * scale_mag,
                       old[4], old[5]>>
        \* points[~valid, 3:5] = -1
        marked == IF valid THEN read ELSE [read EXCEPT ![4] = -1, ![5] = -1]
    IN \* points[valid, 3] = (c & 0xff) * scale_mag; points[valid, 4] = sum(...)
       IF valid
       THEN [marked EXCEPT ![4] = LowByte(c) * scale_mag, ![5] = CameraCount(c)]
       ELSE marked

\* the array points when the generator yields its k-th frame
RECURSIVE PointsAt(_)
PointsAt(k) ==
    IF k = 0 THEN np_zeros(meta.point_used)
    ELSE LET before == PointsAt(k - 1)
         IN [i \in DOMAIN before |->
                ParseRow(before[i], handle, r_groups.proc = PROCESSOR_MIPS,
                         meta.point_scale, frames[k].at, i)]

\* read_frames() and next() on the Reader that was constructed
ReaderSteps == r_groups.raised = "none" /\ (ReadFrames \/ Pull)

NextWriter == AddFrames \/ Write \/ OpenReader \/ ReaderSteps

SpecWriter == InitWriter /\ [][NextWriter]_vars

(***************************************************************************)
(* Files of both byte orders.  The Reader takes the byte order of a file   *)
(* from its processor byte (DataTypes.__init__); the same content is laid  *)
(* out here in the Intel and in the MIPS order: the 16-bit and 32-bit      *)
(* fields of the header, the offset word of every entry, the elements of   *)
(* every parameter and the 16-bit words of the frames change their byte    *)
(* order, single bytes and strings do not.                                 *)
(***************************************************************************)
\* the bytes of one field in the order of the file
Order(bs, mips) == IF mips THEN [i \in DOMAIN bs |-> bs[Len(bs) + 1 - i]] ELSE bs

\* the bytes of a parameter, element by element (of width bytes), in the
\* order of the file
OrderElements(bs, width, mips) ==
    IF ~mips \/ width < 2 THEN bs
    ELSE [i \in DOMAIN bs |->
            LET first == ((i - 1) \div width) * width
            IN IF first + width > Len(bs) THEN bs[i]
               ELSE bs[first + width - ((i - 1) % width)]]

\* the 512 bytes Header.read unpacks with BINARY_FORMAT_READ (Intel) or
\* BINARY_FORMAT_READ_BIG_ENDIAN (MIPS)
EncodeHeader(h, mips) ==
    <<h.parameter_block, 80>>
    \o Order(PackU16(h.point_count), mips) \o Order(PackU16(h.analog_count), mips)
    \o Order(PackU16(h.first_frame), mips) \o Order(PackU16(h.last_frame), mips)
    \o Order(PackU16(h.max_gap), mips) \o Order(PackF32(h.scale_factor), mips)
    \o Order(PackU16(h.data_block), mips) \o Order(PackU16(h.analog_per_frame), mips)
    \o Order(PackF32(h.frame_rate), mips)
    \o Zeros(274) \o Zeros(6) \o Zeros(164) \o Zeros(44)

\* a parameter entry as Param.read and the loop of Reader.__init__ take it
EncodeParam(p, group_id, mips) ==
    LET name == encode(p.name)
        desc == encode(p.desc)
    IN PackI8(Len(name)) \o PackI8(group_id) \o name
       \o Order(PackI16(Param_binary_size(p) - 2 - Len(name)), mips)
       \o PackI8(p.bytes_per_element)
       \o <<Len(p.dimensions)>> \o p.dimensions
       \o OrderElements(p.bytes, Abs(p.bytes_per_element), mips)
       \o <<Len(desc)>> \o desc

\* a group entry and the entries of its parameters
EncodeGroup(g, group_id, mips) ==
    LET name == encode(g.name)
        desc == encode(g.desc)
    IN PackI8(Len(name)) \o PackI8(0 - group_id) \o name
       \o Order(PackI16(3 + Len(desc)), mips) \o <<Len(desc)>> \o desc
       \o Concat([i \in DOMAIN g.params |-> EncodeParam(g.params[i], group_id, mips)])

\* the frames: four 16-bit words a point, as read_frames takes them with
\* POINT:SCALE > 0
EncodeFrames(fs, mips) ==
    Concat([k \in DOMAIN fs |->
        Concat([i \in DOMAIN fs[k].points |->
            Concat([j \in 1..4 |-> Order(PackI16(fs[k].points[i][j]), mips)])])])

\* the file of the header h, the groups and the frames for a processor
EncodeFile(processor, h, keys, objs, fs) ==
    LET mips == processor = PROCESSOR_MIPS
        listed == group_listed(keys)
        body == EncodeHeader(h, mips)
                \o <<0, 0, h.data_block - 2, processor>>
                \o Concat([i \in DOMAIN listed |->
                              EncodeGroup(objs[listed[i].ref], listed[i].v, mips)])
        metadata == body \o Zeros(BlockSize * (h.data_block - 1) - Len(body))
        data == EncodeFrames(fs, mips)
    IN metadata \o data \o pad_block(Len(data))

\* the points of the frames of the files: rows of four 16-bit words (x, y, z
\* and the word of residual and camera bits, -1 for an invalid point)
WordRows ==
    {<<<<1, 2, 3, 0>>, <<258, -258, 300, 1796>>>>,
     <<<<-3, 5, 0, 513>>, <<7, 8, 9, -1>>>>,
     <<<<4, 6, 8, 32514>>, <<0, -1, 255, 256>>>>,
     <<<<5, 5, 5, -32768>>, <<-4, 4, 0, 32767>>>>}

WordBatches ==
    {b \in SeqsUpTo({[points |-> rows, analog |-> <<>>] : rows \in WordRows}, MaxFrames) :
        b # <<>>}

\* the groups of the files: POINT and ANALOG as Writer.write builds them,
\* with POINT:DATA_START set
FileGroups(labels) ==
    LET ppf == Len(w_frames[1].points)
        m0 == [raised |-> "none", keys |-> <<>>, objs |-> <<>>]
        m1 == WriterAddGroup(m0, 1, PointGroup(ppf, labels))
        m2 == WriterAddGroup(m1, 2, AnalogGroup(<<>>))
        size == Sum([i \in DOMAIN m2.objs |-> Group_binary_size(m2.objs[i])])
        blocks == Ceil(4 + size, BlockSize)
    IN [keys |-> m2.keys, blocks |-> blocks,
        objs |-> SetDataStart(m2.keys, m2.objs, PackU16(2 + blocks))]

\* no Writer writes here: writer and w_frames hold the rates, the scale and
\* the frames of the content of the file that is going to be read
InitOrder ==
    /\ InitManager
    /\ dtypes = TRUE
    /\ header = [first_frame |-> 1, last_frame |-> 1, data_block |-> 3]
    /\ params = [n \in ParamPaths |-> NoParam]
    /\ meta = [point_used |-> 0, point_scale |-> -1, analog_used |-> 0, analog_per_frame |-> 0]
    /\ file_size = 0
    /\ position = 0
    /\ pc = "none"
    /\ frame_no = 0
    /\ second = NoGenerator
    /\ frames = <<>>
    /\ warned = {}
    /\ writer \in [point_rate : {258, 480}, analog_rate : {0}, point_scale : {1, 2},
                    \* 'mm  '
                    point_units : {<<109, 109, 32, 32>>}, gen_scale : {1}]
    /\ w_frames \in WordBatches
    /\ w_keys = <<>>
    /\ w_objs = <<>>
    /\ w_header = DefaultHeader
    /\ handle = <<>>
    /\ w_pc = "new"
    /\ r_groups = NoReader

\* the file of the content is put in the handle, in one of the two byte
\* orders; w_header, w_keys and w_objs keep the header and the groups of the
\* content
StoreFile ==
    /\ handle = <<>> /\ w_pc = "new"
    /\ \E processor \in {PROCESSOR_INTEL, PROCESSOR_MIPS} :
          \* 'A', 'B'
          \E g \in {FileGroups(<<<<65>>, <<66>>>>)} :
          \E h \in {SyncHeader(DefaultHeader, g.blocks, Len(w_frames[1].points), <<>>)} :
             /\ w_keys' = g.keys
             /\ w_objs' = g.objs
             /\ w_header' = h
             /\ handle' = EncodeFile(processor, h, g.keys, g.objs, w_frames)
    /\ UNCHANGED <<writer, w_frames, w_pc, r_groups>>
    /\ UNCHANGED <<managerVars, readerVars>>

NextOrder == StoreFile \/ OpenReader \/ ReaderSteps

SpecOrder == InitOrder /\ [][NextOrder]_vars


(***************************************************************************)
(* Group.write on a sink, for groups and parameters of a client            *)
(***************************************************************************)
\* the parameters offered to Group.add_param: a scalar without description,
\* a name and a description with an accent, a float, a 2 x 3 array of 16-bit
\* words, an empty array, and two whose bytes are longer or shorter than
\* bytes_per_element x product(dimensions)
ParamInputs ==
    <<add(<<97>>, <<>>, 1, <<7>>, <<>>),
      \* 'é', 'été', '+X'
      add(<<233>>, <<233, 116, 233>>, -1, <<43, 88>>, <<2>>),
      \* 'rate', 'r'
      add(<<114, 97, 116, 101>>, <<114>>, 4, PackF32(480), <<>>),
      \* 'm', 'grid'
      add(<<109>>, <<103, 114, 105, 100>>, 2,
          PackU16(1) \o PackU16(2) \o PackU16(3) \o PackU16(4) \o PackU16(5) \o PackU16(6),
          <<2, 3>>),
      \* 'e', 'empty'
      add_empty_array(<<101>>, <<101, 109, 112, 116, 121>>, 4),
      \* 'lab', 'é' stored with dimensions [1]
      add_str(<<108, 97, 98>>, <<>>, <<233>>, <<1>>),
      \* 's', 'short'
      add(<<115>>, <<115, 104, 111, 114, 116>>, 2, <<1>>, <<>>)>>

\* the groups offered to Group.write
GroupInputs ==
    LET P == ParamInputs
    IN {[name |-> <<71>>, desc |-> <<>>, params |-> <<>>],
        [name |-> <<71>>, desc |-> <<100>>, params |-> <<P[1], P[2]>>],
        \* 'É', 'clé'
        [name |-> <<201>>, desc |-> <<99, 108, 233>>, params |-> <<P[3], P[4], P[5]>>],
        [name |-> <<80>>, desc |-> <<>>, params |-> <<P[5]>>],
        [name |-> <<80>>, desc |-> <<112>>, params |-> <<P[1], P[6]>>],
        [name |-> <<81>>, desc |-> <<113>>, params |-> <<P[7], P[3]>>]}

InitSizes ==
    /\ InitManager
    /\ dtypes = TRUE
    /\ header = [first_frame |-> 1, last_frame |-> 1, data_block |-> 3]
    /\ params = [n \in ParamPaths |-> NoParam]
    /\ meta = [point_used |-> 0, point_scale |-> -1, analog_used |-> 0, analog_per_frame |-> 0]
    /\ file_size = 0
    /\ position = 0
    /\ pc = "none"
    /\ frame_no = 0
    /\ second = NoGenerator
    /\ frames = <<>>
    /\ warned = {}
    /\ NoWriter

\* Group.write(group_id, handle) of a client's Group on the sink handle:
\* w_keys and w_objs record the groups written, in the order of the calls.
\* Every handle.write() appends at the position of the sink and moves it on
\* by the bytes written.
WriteGroup ==
    /\ Len(w_objs) < MaxGroups
    /\ \E g \in GroupInputs, group_id \in SmallIds :
          /\ handle' = handle \o Group_write(g, group_id)
          /\ position' = position + Len(Group_write(g, group_id))
          /\ w_objs' = Append(w_objs, g)
          /\ w_keys' = Append(w_keys, [t |-> "int", v |-> group_id, ref |-> Len(w_objs) + 1])
    /\ w_pc' = "returned"
    /\ UNCHANGED <<writer, w_frames, w_header, r_groups>>
    /\ UNCHANGED <<header, params, meta, file_size, pc, frame_no, frames, warned, second>>
    /\ UNCHANGED managerVars

SpecSizes == InitSizes /\ [][WriteGroup]_vars


(***************************************************************************)
(* Reader.__init__ on parameter sections whose entries come in any order   *)
(***************************************************************************)
\* the entries offered for a parameter section: group entries (group_id < 0)
\* and parameter entries (group_id > 0).  Groups 1 and 3 carry the same name
\* with ids that differ; group 2 has a name of its own.
SectionEntries ==
    \* 'aa', 'd'
    {[group_id |-> -1, name |-> <<97, 97>>, desc |-> <<100>>,
      bytes_per_element |-> 0, dimensions |-> <<>>, bytes |-> <<>>],
     \* 'x', 'one'
     [group_id |-> 1, name |-> <<120>>, desc |-> <<111, 110, 101>>,
      bytes_per_element |-> 1, dimensions |-> <<>>, bytes |-> <<7>>],
     \* 'B'
     [group_id |-> -2, name |-> <<66>>, desc |-> <<>>,
      bytes_per_element |-> 0, dimensions |-> <<>>, bytes |-> <<>>],
     \* 'y', 'two'
     [group_id |-> 2, name |-> <<121>>, desc |-> <<116, 119, 111>>,
      bytes_per_element |-> 2, dimensions |-> <<2>>, bytes |-> <<1, 0, 2, 0>>],
     \* 'aa', 'again'
     [group_id |-> -3, name |-> <<97, 97>>, desc |-> <<97, 103, 97, 105, 110>>,
      bytes_per_element |-> 0, dimensions |-> <<>>, bytes |-> <<>>],
     \* 'w'
     [group_id |-> 3, name |-> <<119>>, desc |-> <<>>,
      bytes_per_element |-> -1, dimensions |-> <<2>>, bytes |-> <<43, 88>>]}

\* the bytes of an entry, as Group.write and Param.write lay them out
EntryBytes(e) ==
    IF e.group_id < 0
    THEN Group_write([name |-> e.name, desc |-> e.desc, params |-> <<>>], 0 - e.group_id)
    ELSE Param_write(e, e.group_id)

\* a file with the default header, one parameter block holding the entries
\* es in their order, and no frames
SectionFile(es) ==
    LET body == Header_write(DefaultHeader) \o <<0, 0, 1, PROCESSOR_INTEL>>
                \o Concat([i \in DOMAIN es |-> EntryBytes(es[i])])
    IN body \o pad_block(Len(body))

\* no Writer writes here: w_objs holds the entries of the parameter section
\* of the file in the handle
InitWalk ==
    /\ InitManager
    /\ dtypes = TRUE
    /\ header = [first_frame |-> 1, last_frame |-> 1, data_block |-> 3]
    /\ params = [n \in ParamPaths |-> NoParam]
    /\ meta = [point_used |-> 0, point_scale |-> -1, analog_used |-> 0, analog_per_frame |-> 0]
    /\ file_size = 0
    /\ position = 0
    /\ pc = "none"
    /\ frame_no = 0
    /\ second = NoGenerator
    /\ frames = <<>>
    /\ warned = {}
    /\ NoWriter

\* one more entry is put at the end of the parameter section of the file
StoreEntry ==
    /\ w_pc = "new" /\ r_groups = NoReader
    /\ \E e \in SectionEntries :
          /\ \A i \in DOMAIN w_objs : w_objs[i] # e
          /\ w_objs' = Append(w_objs, e)
          /\ handle' = SectionFile(Append(w_objs, e))
    /\ UNCHANGED <<writer, w_frames, w_keys, w_header, w_pc, r_groups>>
    /\ UNCHANGED <<managerVars, readerVars>>

NextWalk == StoreEntry \/ OpenReader

SpecWalk == InitWalk /\ [][NextWalk]_vars


(***************************************************************************)
(* Reader.__init__ on parameter sections that end in any way: at an entry  *)
(* with a zero, at a last parameter, at the end of the source              *)
(***************************************************************************)
MaxChunks == 3

\* an entry with v in its offset_to_next field
WithOffset(bs, v) ==
    LET at == 2 + Abs(Signed8(bs[1]))
    IN [bs EXCEPT ![at + 1] = v % 256, ![at + 2] = v \div 256]

\* the pieces a parameter section is put together from: entries as
\* Group.write and Param.write lay them out ("entry"), two bytes with a zero
\* name length or a zero id ("end"), a parameter with offset_to_next 0
\* ("last"), and a parameter whose offset_to_next is 1 ("open")
TailChunks ==
    LET e(k) == EntryBytes(CHOOSE x \in SectionEntries : x.group_id = k)
    IN {[kind |-> "entry", bytes |-> e(-1)],
        [kind |-> "entry", bytes |-> e(1)],
        [kind |-> "entry", bytes |-> e(2)],
        [kind |-> "end", bytes |-> <<0, 1>>],
        [kind |-> "end", bytes |-> <<1, 0>>],
        [kind |-> "last", bytes |-> WithOffset(e(3), 0)],
        [kind |-> "open", bytes |-> WithOffset(e(2), 1)]}

\* the lengths a source is cut to (0: it is left whole)
Cuts == {0, BlockSize + 9, BlockSize + 200}

\* a file with the default header, one parameter block holding the chunks
\* cs in their order, and a block of bytes after it, cut to cut bytes
TailFile(cs, cut) ==
    LET body == Header_write(DefaultHeader) \o <<0, 0, 1, PROCESSOR_INTEL>>
                \o Concat([i \in DOMAIN cs |-> cs[i].bytes])
        whole == body \o pad_block(Len(body)) \o [i \in 1..BlockSize |-> 2]
    IN IF cut = 0 THEN whole ELSE SubSeq(whole, 1, cut)

\* one more chunk is put at the end of the parameter section of the file,
\* and the file is stored whole or cut
StoreChunk ==
    /\ w_pc = "new" /\ r_groups = NoReader
    /\ Len(w_objs) < MaxChunks
    /\ \E c \in TailChunks, cut \in Cuts :
          /\ \A i \in DOMAIN w_objs : w_objs[i] # c
          /\ w_objs' = Append(w_objs, c)
          /\ handle' = TailFile(Append(w_objs, c), cut)
    /\ UNCHANGED <<writer, w_frames, w_keys, w_header, w_pc, r_groups>>
    /\ UNCHANGED <<managerVars, readerVars>>

NextTail == StoreChunk \/ OpenReader

SpecTail == InitWalk /\ [][NextTail]_vars


(***************************************************************************)
(* DEC floats.  A 32-bit unsigned integer is kept as its two 16-bit        *)
(* halves, a float32 as the four bytes of its bit pattern, least           *)
(* significant first.                                                      *)
(***************************************************************************)
\* struct.unpack('<I', bytes): the integer of four bytes
Uint32(bs) == [hi |-> bs[3] + 256 * bs[4], lo |-> bs[1] + 256 * bs[2]]

\* UNPACK_FLOAT_IEEE(uint_32): struct.unpack('f', struct.pack("<I", uint_32))
UNPACK_FLOAT_IEEE(x) == <<x.lo % 256, x.lo \div 256, x.hi % 256, x.hi \div 256>>

\* DEC_to_IEEE(uint_32)
DEC_to_IEEE(uint_32) ==
    LET \* ((uint_32 & 0xFFFF0000) >> 16) | ((uint_32 & 0x0000FFFF) << 16)
        reshuffled == [hi |-> uint_32.lo, lo |-> uint_32.hi]
        \* reshuffled & 0xFF000000, as a multiple of 2^16
        top == reshuffled.hi - (reshuffled.hi % 256)
        \* ((reshuffled & 0xFF000000) - 1) & 0xFF000000: the borrow runs
        \* through the 24 bits below the top byte, and 0 - 1 is the Python
        \* integer -1, all of whose bits are set
        exp_bits == IF top = 0 THEN 65280 ELSE top - 256
    IN \* (reshuffled & 0x00FFFFFF) | exp_bits
       UNPACK_FLOAT_IEEE([hi |-> (reshuffled.hi % 256) + exp_bits, lo |-> reshuffled.lo])

\* DEC_to_IEEE_BYTES(bytes): the bytes of the float32 array returned, for a
\* byte array of whole 4-byte words
DEC_to_IEEE_BYTES(bytes) ==
    [i \in DOMAIN bytes |->
        LET first == ((i - 1) \div 4) * 4      \* the word of byte i
            k == (i - 1) % 4
        IN CASE k = 0 -> bytes[first + 3]      \* reshuffled[0::4] = bytes[2::4]
             [] k = 1 -> bytes[first + 4]      \* reshuffled[1::4] = bytes[3::4]
             [] k = 2 -> bytes[first + 1]      \* reshuffled[2::4] = bytes[0::4]
             \* reshuffled[3::4] = bytes[1::4] + ((bytes[1::4] & 0x7f == 0) - 1)
             [] OTHER -> (bytes[first + 2]
                          + ((IF bytes[first + 2] % 128 = 0 THEN 1 ELSE 0) - 1)) % 256]

\* the DEC words converted: every combination of a few values of each byte,
\* and the arrays of two of some of them
DecWords ==
    {<<b0, b1, b2, b3>> : b0 \in {0, 1, 255}, b1 \in {0, 1, 64, 127, 128, 129, 255},
                          b2 \in {0, 255}, b3 \in {0, 128, 255}}
DecArrays ==
    DecWords \cup {v \o w : v, w \in {<<0, 0, 0, 0>>, <<0, 64, 0, 0>>, <<0, 128, 0, 0>>,
                                      <<255, 129, 0, 128>>}}

\* nothing is read or written here: handle holds a byte array of DEC words
InitDec ==
    /\ InitManager
    /\ dtypes = TRUE
    /\ header = [first_frame |-> 1, last_frame |-> 1, data_block |-> 3]
    /\ params = [n \in ParamPaths |-> NoParam]
    /\ meta = [point_used |-> 0, point_scale |-> -1, analog_used |-> 0, analog_per_frame |-> 0]
    /\ file_size = 0
    /\ position = 0
    /\ pc = "none"
    /\ frame_no = 0
    /\ second = NoGenerator
    /\ frames = <<>>
    /\ warned = {}
    /\ writer = [point_rate |-> 480, analog_rate |-> 0, point_scale |-> -1,
                 point_units |-> <<109, 109, 32, 32>>, gen_scale |-> 1]
    /\ w_frames = <<>>
    /\ w_keys = <<>>
    /\ w_objs = <<>>
    /\ w_header = DefaultHeader
    /\ handle \in DecArrays
    /\ w_pc = "new"
    /\ r_groups = NoReader

\* the byte array is converted in bulk, and word by word with the scalar
\* conversion of each word read as a little-endian integer; frames keeps the
\* two results
ConvertDec ==
    /\ frames = <<>>
    /\ frames' = <<[bulk |-> DEC_to_IEEE_BYTES(handle),
                    scalar |-> Concat([k \in 1..(Len(handle) \div 4) |->
                                  DEC_to_IEEE(Uint32(SubSeq(handle, 4 * k - 3, 4 * k)))])]>>
    /\ UNCHANGED <<header, params, meta, file_size, position, pc, frame_no, warned, second>>
    /\ UNCHANGED <<managerVars, writerVars>>

SpecDec == InitDec /\ [][ConvertDec]_vars


(***************************************************************************)
(* Specifications.  Spec: the three group operations of the Manager.       *)
(* SpecParams: add_group together with the parameter operations and the    *)
(* name setter of the Group held under id 1, over fewer ids and names.     *)
(***************************************************************************)
AddGroup(ids, names) ==
    \E i \in ids, n \in names, r \in BOOLEAN :
        /\ Constructs(i, n, r) => Refs \ LiveGroups # {}
        /\ Apply(add_group(i, n, r))

RemoveGroup(ids, names) ==
    \/ \E i \in ids : Apply(remove_group(IntKey(i)))
    \/ \E n \in names : Apply(remove_group(StrKey(n)))

\* the new_group_id values offered to rename_group
RenameTo(old, ids, names) ==
    \/ \E i \in ids : Apply(rename_group(old, IntKey(i)))
    \/ \E n \in names : Apply(rename_group(old, StrKey(n)))

RenameGroup(ids, names) ==
    \/ \E i \in ids : RenameTo(IntKey(i), ids, names)
    \/ \E n \in names : RenameTo(StrKey(n), ids, names)
    \/ \E r \in LiveGroups : RenameTo(Obj(r), ids, names)

\* the Group whose parameters the caller edits: get(1)
Edited == IF 1 \in DOMAIN groups_int THEN {groups_int[1]} ELSE {}

SetNames == {<<"A">>, <<"B">>}

\* get(1).name = a string, = None, = 1
SetName ==
    \E r \in Edited :
        \/ \E n \in SetNames : Apply(set_name(r, StrKey(n)))
        \/ Apply(set_name(r, [t |-> "None"]))
        \/ Apply(set_name(r, IntKey(1)))

AddParam ==
    \E g \in Edited, n \in ParamNames :
        /\ PRefs \ LiveParams # {}
        /\ Apply(add_param(g, n))

RemoveParam == \E g \in Edited, n \in ParamNames : Apply(remove_param(g, n))

RenameParam ==
    \E g \in Edited, new \in ParamNames :
        \/ \E n \in ParamNames : Apply(rename_param(g, StrKey(n), new))
        \/ \E i \in 1..Len(group_params[g]) :
              Apply(rename_param(g, Obj(group_params[g][i][2]), new))

\* a Manager with no file behind it: a Writer(), or the base class
\* constructed as Manager(), which has no _dtypes
Init ==
    /\ InitManager
    /\ dtypes \in BOOLEAN
    /\ NoWriter
    /\ header = [first_frame |-> 1, last_frame |-> 1, data_block |-> 3]
    /\ params = [n \in ParamPaths |-> NoParam]
    /\ meta = [point_used |-> 0, point_scale |-> -1, analog_used |-> 0, analog_per_frame |-> 0]
    /\ file_size = 0
    /\ position = 0
    /\ pc = "none"
    /\ frame_no = 0
    /\ second = NoGenerator
    /\ frames = <<>>
    /\ warned = {}

Next ==
    \/ AddGroup(Ids, GroupNames)
    \/ RemoveGroup(Ids, GroupNames)
    \/ RenameGroup(Ids, GroupNames)

Spec == Init /\ [][Next]_vars

NextParams ==
    \/ AddGroup(SmallIds, SmallNames)
    \/ AddParam
    \/ RemoveParam
    \/ RenameParam
    \/ SetName

SpecParams == Init /\ [][NextParams]_vars

(***************************************************************************)
(* Properties of the Manager and the Group.  A property of an operation    *)
(* is stated in every reachable state, for every argument the operation is *)
(* offered there, about the outcome the operation has in that state.       *)
(***************************************************************************)
IntKeysOf(g) == {i \in DOMAIN groups_int : groups_int[i] = g}
StrKeysOf(g) == {n \in DOMAIN groups_str : groups_str[n] = g}

\* the letters and digits text is made of
Chars == {"a", "A", "b", "B", "p", "P", "q", "Q"} \cup {Digit(d) : d \in 0..9}

\* every letter-casing of s
RECURSIVE Casings(_)
Casings(s) ==
    IF s = <<>> THEN {<<>>}
    ELSE {<<c>> \o t : c \in {x \in Chars : Upper(x) = Upper(Head(s))},
                       t \in Casings(Tail(s))}

\* P for every (group_id, new_group_id) offered to rename_group
ForAllRenames(P(_, _)) ==
    LET ToAll(old) == /\ \A j \in Ids : P(old, IntKey(j))
                      /\ \A m \in GroupNames : P(old, StrKey(m))
    IN /\ \A i \in Ids : ToAll(IntKey(i))
       /\ \A n \in GroupNames : ToAll(StrKey(n))
       /\ \A r \in LiveGroups : ToAll(Obj(r))

\* C1: every group the Manager holds is registered under exactly one
\* integer key and exactly one name key, and get(name) and get(id) return it.
C1_DualKey ==
    \A g \in LiveGroups :
        /\ Cardinality(IntKeysOf(g)) = 1
        /\ Cardinality(StrKeysOf(g)) = 1
        /\ \A i \in IntKeysOf(g) : get(IntKey(i), Default) = GroupValue(g)
        /\ \A n \in StrKeysOf(g) : get(StrKey(n), Default) = GroupValue(g)

\* rename_group(old, new) returned and was not the no-op new == old
Renamed(old, new) ==
    /\ old.t = "obj" \/ InGroups(old)
    /\ ~InGroups(new)
    /\ rename_group(old, new).raised = "none"

\* C2: after a successful rename_group(old, new), for every form of old: if
\* new is an integer the group resolves under the new id, no longer under
\* its previous id, and still under its name; if new is a string the group's
\* name is new, get(new) returns it, its previous name no longer resolves
\* and its id still resolves.
C2_RenameGroup ==
    ForAllRenames(LAMBDA old, new :
        Renamed(old, new) =>
            LET e == rename_group(old, new)
                grp == Resolve(old)
                was == group_name[grp]
            IN IF new.t = "int"
               THEN /\ GetInt(e.gi, new.v, Default) = GroupValue(grp)
                    /\ \A i \in IntKeysOf(grp) :
                           GetInt(e.gi, i, Default) # GroupValue(grp)
                    /\ get(StrKey(was), Default) = GroupValue(grp)
                           => GetStr(e.gs, e.gp, was, Default) = GroupValue(grp)
               ELSE /\ e.gn[grp] = new.v
                    /\ GetStr(e.gs, e.gp, new.v, Default) = GroupValue(grp)
                    /\ was # new.v
                           => GetStr(e.gs, e.gp, was, Default) # GroupValue(grp)
                    /\ \A i \in IntKeysOf(grp) :
                           GetInt(e.gi, i, Default) = GroupValue(grp))

\* C3: add_group(id, name, desc, rename_duplicated_groups=True) with a fresh
\* id and a name that exists registers the new group under id and under
\* name + str(id), and every group registered before is still reachable
\* under its own name and its own id.
C3_DuplicatedName ==
    \A i \in Ids, n \in GroupNames :
        (/\ i \notin DOMAIN groups_int
         /\ StrUpper(n) \in DOMAIN groups_str
         /\ Refs \ LiveGroups # {})
        => LET e == add_group(i, n, TRUE)
               synth == StrUpper(n) \o str(i)
           IN /\ e.raised = "none"
              /\ GetInt(e.gi, i, Default) = GroupValue(NewRef)
              /\ synth \in DOMAIN e.gs /\ e.gs[synth] = NewRef
              /\ e.gn[NewRef] = synth
              /\ \A g \in LiveGroups :
                    /\ \A k \in IntKeysOf(g) : k \in DOMAIN e.gi /\ e.gi[k] = g
                    /\ \A k \in StrKeysOf(g) : k \in DOMAIN e.gs /\ e.gs[k] = g

\* the operation with outcome e raised and left every dictionary as it was
Fails(e) ==
    /\ e.raised \in {"KeyError", "ValueError"}
    /\ e.gi = groups_int
    /\ e.gs = groups_str
    /\ e.gn = group_name
    /\ e.gp = group_params
    /\ e.pn = param_name

\* C4: each duplicate-key operation raises and leaves the mapping unchanged:
\* add_group with an id that is present, add_group with a name that is
\* present (as add_group normalizes it) when rename_duplicated_groups is
\* false, rename_group to a key of a different group, Group.rename_param to
\* a parameter key that exists.
C4_DuplicateKey ==
    /\ \A i \in DOMAIN groups_int, n \in GroupNames, r \in BOOLEAN :
           Fails(add_group(i, n, r))
    /\ \A i \in Ids, n \in GroupNames :
           StrUpper(n) \in DOMAIN groups_str => Fails(add_group(i, n, FALSE))
    /\ ForAllRenames(LAMBDA old, new :
           (/\ old.t = "obj" \/ InGroups(old)
            /\ InGroups(new)
            /\ Resolve(new) # Resolve(old))
           => Fails(rename_group(old, new)))
    /\ \A g \in LiveGroups :
           \A new \in ParamKeys(group_params[g]) :
               /\ \A n \in ParamNames : Fails(rename_param(g, StrKey(n), new))
               /\ \A j \in 1..Len(group_params[g]) :
                      Fails(rename_param(g, Obj(group_params[g][j][2]), new))

\* a duplicate-key operation has just raised in a Manager with two groups,
\* one of them with two parameters
C4_Witness ==
    /\ raised = "ValueError"
    /\ Cardinality(LiveGroups) = 2
    /\ \E g \in LiveGroups : Len(group_params[g]) = 2

\* the Group g is registered the way add_group registers it: under its
\* upper-cased name
Registered(g) ==
    /\ group_name[g] = StrUpper(group_name[g])
    /\ group_name[g] \in DOMAIN groups_str
    /\ groups_str[group_name[g]] = g

Separators == {".", ":"}

\* C5 for the operations: right after add_group the group is returned for its
\* name in every casing and for its id; right after add_param on a registered
\* group the new Param is returned for 'G.P' and 'G:P' in every casing.
C5_Added ==
    /\ \A i \in Ids, n \in GroupNames, r \in BOOLEAN :
           (/\ Constructs(i, n, r)
            /\ StrUpper(n) \notin DOMAIN groups_str
            /\ Refs \ LiveGroups # {})
           => LET e == add_group(i, n, r)
              IN /\ GetInt(e.gi, i, Default) = GroupValue(NewRef)
                 /\ \A c \in Casings(n) :
                        GetStr(e.gs, e.gp, c, Default) = GroupValue(NewRef)
    /\ \A g \in LiveGroups, n \in ParamNames :
           (Registered(g) /\ PRefs \ LiveParams # {})
           => LET e == add_param(g, n)
              IN \A c \in Casings(group_name[g]), d \in Casings(n), sep \in Separators :
                     GetStr(e.gs, e.gp, c \o <<sep>> \o d, Default) = ParamValue(NewPRef)

\* C5 for the state: a registered group and the parameters stored under
\* upper-cased keys keep being returned, in every casing.
C5_Stored ==
    \A g \in LiveGroups :
        Registered(g) =>
            /\ \A c \in Casings(group_name[g]) :
                   get(StrKey(c), Default) = GroupValue(g)
            /\ \A i \in IntKeysOf(g) : get(IntKey(i), Default) = GroupValue(g)
            /\ \A j \in 1..Len(group_params[g]) :
                   LET k == group_params[g][j][1]
                   IN k = StrUpper(k) =>
                      \A c \in Casings(group_name[g]), d \in Casings(k), sep \in Separators :
                          get(StrKey(c \o <<sep>> \o d), Default)
                              = ParamValue(group_params[g][j][2])

\* C5 for what is missing: the default is returned
C5_Missing ==
    /\ \A i \in Ids : i \notin DOMAIN groups_int => get(IntKey(i), Default) = Default
    /\ \A n \in GroupNames, m \in ParamNames, sep \in Separators :
           LET G == StrUpper(n)
               path == StrKey(n \o <<sep>> \o m)
           IN /\ G \notin DOMAIN groups_str
                  => get(StrKey(n), Default) = Default /\ get(path, Default) = Default
              /\ (/\ G \in DOMAIN groups_str
                  /\ StrUpper(m) \notin ParamKeys(group_params[groups_str[G]]))
                  => get(path, Default) = Default

\* C5: for a group added with add_group under name G and a parameter added
\* to it with add_param under name P, get returns that Param for 'G.P' and
\* 'G:P' in every letter-casing, the group for G in every casing and for its
\* id, and the default when the group or the parameter is missing.
C5_PathLookup == C5_Added /\ C5_Stored /\ C5_Missing

\* a registered group holds a parameter added with add_param, and another
\* group name is missing
C5_Witness ==
    /\ raised = "none"
    /\ \E g \in LiveGroups :
           /\ Registered(g)
           /\ IntKeysOf(g) # {}
           /\ \E j \in 1..Len(group_params[g]) :
                  group_params[g][j][1] = StrUpper(group_params[g][j][1])
    /\ \E n \in GroupNames : StrUpper(n) \notin DOMAIN groups_str

\* C6: every parameter stored in a group has a name attribute equal to the
\* (upper-cased) key under which it is stored.
C6_ParamNameIsKey ==
    \A g \in LiveGroups :
        \A j \in 1..Len(group_params[g]) :
            /\ param_name[group_params[g][j][2]] = group_params[g][j][1]
            /\ group_params[g][j][1] = StrUpper(group_params[g][j][1])

(***************************************************************************)
(* Properties of the frame range and of read_frames                        *)
(***************************************************************************)
\* the value a candidate parameter counts with: 0 when it is missing
Candidate(path) == IF params[path] = NoParam THEN 0 ELSE as_integer_value(params[path])

Candidates ==
    {header.last_frame, Candidate("TRIAL:ACTUAL_END_FIELD"),
     Candidate("POINT:LONG_FRAMES"), Candidate("POINT:FRAMES")}

\* C7 (amended): last_frame is header.last_frame when header.first_frame <
\* header.last_frame and header.last_frame != 65535, and in every other case
\* the maximum of header.last_frame, TRIAL:ACTUAL_END_FIELD,
\* POINT:LONG_FRAMES and POINT:FRAMES, a missing parameter counting as 0
\* (that maximum may be header.last_frame itself).
C7_LastFrame ==
    IF header.first_frame < header.last_frame /\ header.last_frame # 65535
    THEN last_frame = header.last_frame
    ELSE /\ last_frame \in Candidates
         /\ \A c \in Candidates : c <= last_frame

\* C7 as stated, with its "only if": the value returned is header.last_frame
\* exactly when header.first_frame < header.last_frame and header.last_frame
\* != 65535, and the maximum of the four candidates in every other case.
C7_HeaderValueIff ==
    /\ last_frame = header.last_frame
           <=> (header.first_frame < header.last_frame /\ header.last_frame # 65535)
    /\ ~(header.first_frame < header.last_frame /\ header.last_frame # 65535)
           => /\ last_frame \in Candidates
              /\ \A c \in Candidates : c <= last_frame

\* the iterator ran over a range whose end came from a parameter
C7_Witness ==
    /\ pc = "done"
    /\ ~(header.first_frame < header.last_frame)
    /\ last_frame > header.last_frame
    /\ Len(frames) > 0

\* bytes of one frame record
FrameBytes == point_bytes + analog_bytes

\* the data section holds all declared frame records
Complete == file_size >= data_start + frame_count * FrameBytes

\* C8: over a complete file read_frames, run to exhaustion, yields exactly
\* frame_count = last_frame - first_frame + 1 frames, numbered first_frame,
\* first_frame + 1, ..., last_frame in that order.
C8_FrameCount ==
    (pc = "done" /\ Complete)
    => /\ Len(frames) = frame_count
       /\ \A k \in 1..Len(frames) : frames[k].frame_no = first_frame + k - 1

\* the data section ends before the last declared frame record does
Truncated ==
    /\ frame_count > 0
    /\ file_size < data_start + frame_count * FrameBytes

\* the whole frame records the data section holds
WholeRecords ==
    IF file_size <= data_start THEN 0 ELSE (file_size - data_start) \div FrameBytes

\* C9: over a truncated data section read_frames yields exactly the frames
\* whose point and analog records are completely present, in order, never a
\* partially read frame, warns, and ends without an error.
C9_TruncatedFile ==
    /\ \A k \in 1..Len(frames) :
           /\ frames[k].frame_no = first_frame + k - 1
           /\ frames[k].at = data_start + (k - 1) * FrameBytes
           /\ frames[k].at + FrameBytes <= file_size
    /\ (pc = "done" /\ Truncated)
           => /\ Len(frames) = WholeRecords
              /\ warned = {"eof"}

\* the iterator ended on a record that is partly there, after whole ones
C9_Witness ==
    /\ pc = "done"
    /\ Truncated
    /\ Len(frames) > 0
    /\ file_size > data_start + Len(frames) * FrameBytes
    /\ "eof" \in warned

\* bytes between the handle position at the end of the loop and the end of
\* the file
Remaining == file_size - (data_start + Len(frames) * FrameBytes)

\* C10: after the last frame was yielded and the loop ended normally, the
\* trailing-data warning is emitted if and only if strictly more than 512
\* bytes remain between the handle position and the end of the file.
C10_TrailingWarning ==
    (pc = "done" /\ "eof" \notin warned /\ Len(frames) > 0)
    => ("trailing" \in warned <=> Remaining > BlockSize)

\* C11: whenever ANALOG:BITS is present and differs from the analog word
\* width in bits (16 for integer data, 32 for float data), read_frames raises
\* the unsupported-encoding error before it yields a frame, for float and
\* integer point data and signed and unsigned ANALOG:FORMAT alike.
C11_AnalogBits ==
    (/\ pc \notin {"none", "created"}
     /\ params["ANALOG:BITS"] # NoParam
     /\ as_integer_value(params["ANALOG:BITS"]) # 8 * analog_word_bytes)
    => (pc = "raised" /\ frames = <<>>)

\* the sum of binary_size() over the groups of the Writer, each Group once
GroupBytesOnce == Sum([i \in DOMAIN w_objs |-> Group_binary_size(w_objs[i])])

\* C12: parameter_blocks() is the ceiling of (4 + S) / 512, where S is the
\* sum of binary_size() over the groups with every group counted exactly
\* once, and this is the value a write stores in the prologue and adds 2 to
\* for the header's data_block.
C12_ParameterBlocks ==
    (w_pc = "returned" /\ handle # <<>>)
    => /\ parameter_blocks(w_keys, w_objs) = Ceil(4 + GroupBytesOnce, BlockSize)
       /\ handle[BlockSize + 3] = parameter_blocks(w_keys, w_objs)
       /\ w_header.data_block = 2 + parameter_blocks(w_keys, w_objs)

\* 512 * (data_block - 1) for the header of the Writer
WriterDataStart == BlockSize * (w_header.data_block - 1)

\* self.get('POINT:DATA_START') of the Writer, as get_uint16 reads it
WriterDataStartParam == uint16_value(GroupOf(w_keys, w_objs, "int", 1).params[3])

\* C13: in every write that passes check_metadata the padding loop of
\* _write_metadata terminates: the header, the prologue and the groups end at
\* or before 512 * (data_block - 1), the handle is advanced exactly to that
\* offset, the frame data starts there, and header.data_block and
\* POINT:DATA_START are both 2 + parameter_blocks().
C13_PaddingLoop ==
    /\ w_pc # "diverges"
    /\ (w_pc = "returned" /\ handle # <<>>)
       => /\ Len(MetadataBytes(w_header, w_keys, w_objs)) <= WriterDataStart
          /\ \E junk \in Junk :
                SubSeq(handle, WriterDataStart + 1, Len(handle))
                    = write_frames(WriterDataStart, junk)
          /\ w_header.data_block = 2 + parameter_blocks(w_keys, w_objs)
          /\ WriterDataStartParam = w_header.data_block

\* a Writer() with the default arguments has written 2 frames of 3 points
\* and no analog data under the labels 'A', 'B', 'C'
DefaultWrite ==
    /\ w_pc = "returned" /\ handle # <<>>
    /\ writer = [point_rate |-> 480, analog_rate |-> 0, point_scale |-> -1,
                 point_units |-> <<109, 109, 32, 32>>, gen_scale |-> 1]
    /\ Len(w_frames) = 2
    /\ \A i \in 1..2 : Len(w_frames[i].points) = 3 /\ w_frames[i].analog = <<>>
    /\ GroupOf(w_keys, w_objs, "int", 1).params[9].bytes = <<65, 66, 67>>

\* C14: a default Writer that wrote 2 frames of 3 points, no analog data and
\* the labels 'A', 'B', 'C' has written
\* (2 + parameter_blocks + ceil(2 * 3 * 4 * 4 / 512)) * 512 bytes, where
\* parameter_blocks is the ceiling of (4 + the binary sizes of the three
\* groups) / 512, each of the three groups counted once as the claim counts
\* them (GroupBytesOnce), whatever parameter_blocks() of the code returns.
C14_BytesWritten ==
    DefaultWrite
    => Len(handle) = (2 + Ceil(4 + GroupBytesOnce, BlockSize)
                        + Ceil(2 * 3 * 4 * 4, BlockSize)) * BlockSize

\* the default write of 2 frames of 3 points is done and holds 2560 bytes:
\* one header block, the parameter section that parameter_blocks() = 3 sizes
\* (data_block 5) and one block of frames, which is also the claim's
\* (2 + 2 + 1) blocks with the three groups counted once
C14_Witness ==
    /\ DefaultWrite /\ Len(w_objs) = 3 /\ Len(handle) = 2560
    /\ Ceil(4 + GroupBytesOnce, BlockSize) = 2
    /\ parameter_blocks(w_keys, w_objs) = 3
    /\ w_header.data_block = 5

\* the offsets at which write() started an entry (a group or a parameter):
\* the lengths of what Group.write and Param.write wrote, from byte 516 on
RECURSIVE Offsets(_, _)
Offsets(lens, at) ==
    IF lens = <<>> THEN <<>> ELSE <<at>> \o Offsets(Tail(lens), at + Head(lens))
WrittenEntries ==
    LET listed == group_listed(w_keys)
        lens == Concat([i \in DOMAIN listed |->
                   LET g == w_objs[listed[i].ref]
                   IN <<Len(Group_write([g EXCEPT !.params = <<>>], listed[i].v))>>
                      \o [j \in DOMAIN g.params |->
                             Len(Param_write(g.params[j], listed[i].v))]])
    IN Offsets(lens, BlockSize + 4)

\* what the claim compares of a parameter
Compared(p) ==
    [name |-> p.name, bytes_per_element |-> p.bytes_per_element,
     dimensions |-> p.dimensions, bytes |-> p.bytes]

\* C15: a Reader constructed on the file a write produced holds groups with
\* the same numbers (1, 2, 3) and names (POINT, ANALOG, TRIAL), each with the
\* same parameters in the same order and with the same name,
\* bytes_per_element, dimensions and raw bytes, and its walk over the
\* parameter section lands exactly on the start of every written entry.
C15_ParameterRoundTrip ==
    r_groups # NoReader
    => LET read == group_listed(r_groups.keys)
           written == group_listed(w_keys)
       IN /\ r_groups.raised = "none"
          /\ [i \in DOMAIN read |-> read[i].v] = <<1, 2, 3>>
          /\ [i \in DOMAIN read |-> r_groups.objs[read[i].ref].name]
               = [i \in DOMAIN written |-> w_objs[written[i].ref].name]
          /\ \A i \in DOMAIN read :
                LET rp == r_groups.objs[read[i].ref].params
                    wp == w_objs[written[i].ref].params
                IN [j \in DOMAIN rp |-> Compared(rp[j])]
                     = [j \in DOMAIN wp |-> Compared(wp[j])]
          /\ r_groups.entries = WrittenEntries

\* a write returned after it wrote the frames
Written == w_pc = "returned" /\ handle # <<>>

\* the frames of the Writer carry no analog samples
NoAnalog == \A k \in DOMAIN w_frames : w_frames[k].analog = <<>>

\* the array raw of frame k, for the value junk of uninitialised memory
RawOf(junk) ==
    RawFrames(w_frames, np_empty(Len(w_frames[1].points), junk),
              writer.point_scale < 0, Abs(writer.point_scale))

\* the words of a frame in the width the claim gives them: int16 words of 2
\* bytes for point_scale > 0, float words of 4 bytes for point_scale < 0
ClaimedWords(raw) ==
    Concat([i \in DOMAIN raw |->
        Concat([j \in 1..4 |-> IF writer.point_scale < 0 THEN PackF32(raw[i][j])
                                ELSE PackI16(raw[i][j])])])

\* C16: with point_scale > 0 every point word is written as a 2-byte int16,
\* a frame record has 8 * point_used bytes and frame k starts at
\* 512 * (data_block - 1) + k * record size, where read_frames reads it; with
\* point_scale < 0 the words have 4 bytes.
C16_WordWidth ==
    (Written /\ NoAnalog)
    => LET ppf == Len(w_frames[1].points)
           record == 4 * ppf * (IF writer.point_scale < 0 THEN 4 ELSE 2)
       IN /\ \E junk \in Junk :
                \A k \in DOMAIN w_frames :
                    SubSeq(handle, WriterDataStart + (k - 1) * record + 1,
                           WriterDataStart + k * record)
                        = ClaimedWords(RawOf(junk)[k])
          /\ r_groups.raised = "none"
             => \A k \in DOMAIN frames :
                    frames[k].at = WriterDataStart + (k - 1) * record

\* C17: a residual r (r / |scale| an integer from 0 to 255) and a camera
\* count n (0 to 7) written for a point are read back exactly, and a point
\* written with residual -1 is read back with residual -1 and camera -1.
C17_ResidualCamera ==
    (Written /\ r_groups.raised = "none")
    => \A k \in DOMAIN frames :
         \A i \in DOMAIN w_frames[k].points :
            LET w == w_frames[k].points[i]
                d == ReadPoint(frames[k].at, i)
                scale == Abs(writer.point_scale)
            IN /\ w[4] = -1 => (d[4] = -1 /\ d[5] = -1)
               /\ (w[4] >= 0 /\ w[4] % scale = 0 /\ w[4] \div scale <= 255
                     /\ w[5] \in 0..7)
                  => (d[4] = w[4] /\ d[5] = w[5])

\* the analog samples of a frame as words of the array the points are
\* written from
SampleWords(analog) ==
    Concat([i \in DOMAIN analog |->
        Concat([j \in DOMAIN analog[i] |->
            IF writer.point_scale < 0 THEN PackF32(analog[i][j])
            ELSE PackI32(analog[i][j])])])

\* C18: _write_frames writes the analog samples of each frame exactly once,
\* after the frame's point words (analog_used * analog_per_frame words), and
\* a file with analog_used > 0 is read back frame by frame (each with an
\* analog array of analog_used rows of analog_per_frame samples).
C18_AnalogOnce ==
    Written
    => LET ppf == Len(w_frames[1].points)
           point_part == 4 * ppf * 4
           record == point_part + 4 * analog_size(w_frames[1].analog)
       IN /\ \A k \in DOMAIN w_frames :
                SubSeq(handle, WriterDataStart + (k - 1) * record + point_part + 1,
                       WriterDataStart + k * record)
                    = SampleWords(w_frames[k].analog)
          /\ (r_groups.raised = "none" /\ meta.analog_used > 0)
             => /\ pc \notin {"raised", "failed"}
                /\ pc = "done" => Len(frames) = Len(w_frames)

\* C19: after a write() that completed the buffered frames are consumed, and
\* a second write() without add_frames in between returns early: it writes
\* nothing and raises no error.
C19_SecondWrite ==
    [][(Written /\ w_pc' # "added")
       => (w_frames = <<>> /\ w_pc' = "returned" /\ handle' = handle)]_vars

\* the value of a parameter as the accessors of the Param give it: its first
\* element for elements of 2 or 4 bytes, else its bytes
ReadValue(p, mips) ==
    LET pl == [total_bytes |-> total_bytes(p), bytes |-> p.bytes, mips |-> mips]
    IN IF Abs(p.bytes_per_element) = 2 /\ Len(p.bytes) >= 2 THEN <<uint16_value(pl)>>
       ELSE IF Abs(p.bytes_per_element) = 4 /\ Len(p.bytes) >= 4 THEN Native(pl, 4)
       ELSE p.bytes

\* what a Reader holds of the groups: the keys, and for every Group its name
\* and the name, shape and value of every parameter
GroupValues(r) ==
    [keys |-> r.keys,
     objs |-> [i \in DOMAIN r.objs |->
                 [name |-> r.objs[i].name,
                  params |-> [j \in DOMAIN r.objs[i].params |->
                     LET q == r.objs[i].params[j]
                     IN [name |-> q.name, bytes_per_element |-> q.bytes_per_element,
                         dimensions |-> q.dimensions,
                         value |-> ReadValue(q, r.proc = PROCESSOR_MIPS)]]]]]

\* the same content in the other byte order
OtherFile ==
    EncodeFile(IF r_groups.proc = PROCESSOR_MIPS THEN PROCESSOR_INTEL ELSE PROCESSOR_MIPS,
               w_header, w_keys, w_objs, w_frames)

\* C20: for the same content laid out with processor byte 84 (little-endian)
\* and with processor byte 86 (big-endian) the Reader takes the processor
\* from the single byte of the file, and yields the same header fields (the
\* integers of the content), the same groups and parameter values and the
\* same point tuples.
C20_ByteOrder ==
    (w_pc = "new" /\ r_groups.raised # "unopened")
    => \A file \in {OtherFile} : \A other \in {Reader(file)} :
       \A scale \in {ReaderPointScale(other, other.header)} :
          /\ r_groups.raised = "none" /\ other.raised = "none"
          /\ r_groups.proc = handle[BlockSize * (r_groups.header.parameter_block - 1) + 4]
          /\ {r_groups.proc, other.proc} = {PROCESSOR_INTEL, PROCESSOR_MIPS}
          /\ r_groups.header = other.header
          /\ \A f \in {"parameter_block", "point_count", "analog_count", "first_frame",
                        "last_frame", "max_gap", "data_block", "analog_per_frame"} :
                r_groups.header[f] = w_header[f]
          /\ GroupValues(r_groups) = GroupValues(other)
          /\ ReaderPointUsed(r_groups, r_groups.header) = w_header.point_count
          /\ meta.point_scale = scale
          /\ \A k \in DOMAIN frames :
                \A i \in 1..meta.point_used :
                  \A d \in {ReadPoint(frames[k].at, i)} :
                    /\ d = PointRow(file, other.proc = PROCESSOR_MIPS, scale,
                                    frames[k].at, i)
                    /\ LET w == w_frames[k].points[i]
                       IN /\ <<d[1], d[2], d[3]>>
                              = <<w[1] * meta.point_scale, w[2] * meta.point_scale,
                                  w[3] * meta.point_scale>>
                          /\ w[4] = -1 => (d[4] = -1 /\ d[5] = -1)

\* a big-endian file was opened and all of its frames were read
C20_Witness ==
    /\ w_pc = "new" /\ r_groups.raised = "none" /\ r_groups.proc = PROCESSOR_MIPS
    /\ pc = "done" /\ Len(frames) = MaxFrames
    /\ frames[2].at = BlockSize * (w_header.data_block - 1) + 8 * meta.point_used


\* the raw bytes of a parameter have the length its dimensions announce
Matches(p) == Len(p.bytes) = total_bytes(p)

\* the entries the calls of Group.write put on the sink, in order: each
\* group's own entry and then one entry for each of its parameters, with the
\* offset in the sink at which it starts
SinkEntries ==
    LET es == Concat([i \in DOMAIN w_objs |->
                  LET g == w_objs[i]
                      id == w_keys[i].v
                  IN <<[group |-> i, param |-> 0,
                        len |-> Len(Group_write([g EXCEPT !.params = <<>>], id))]>>
                     \o [j \in DOMAIN g.params |->
                            [group |-> i, param |-> j,
                             len |-> Len(Param_write(g.params[j], id))]]])
        at == Offsets([k \in DOMAIN es |-> es[k].len], 0)
    IN [k \in DOMAIN es |-> [group |-> es[k].group, param |-> es[k].param, at |-> at[k]]]

\* C21: on the sink, every parameter whose raw bytes have the length
\* |bytes_per_element| x product(dimensions) takes Param.binary_size() bytes,
\* every group whose parameters are all such takes Group.binary_size() bytes,
\* and the offset_to_next of a group's entry and of such a parameter's entry
\* is the distance from the first byte of that offset field to the first
\* byte of the next entry (the end of the sink after the last entry).
C21_BinarySize ==
    \A es \in {SinkEntries} :
       \A k \in DOMAIN es :
          LET e == es[k]
              g == w_objs[e.group]
              next == IF k < Len(es) THEN es[k + 1].at ELSE Len(handle)
              field == e.at + 2 + handle[e.at + 1]
          IN IF e.param = 0
             THEN /\ U16At(handle, field, FALSE) = next - field
                  /\ (\A j \in DOMAIN g.params : Matches(g.params[j]))
                     => LET after == {l \in DOMAIN es : es[l].group > e.group}
                            end == IF after = {} THEN Len(handle)
                                   ELSE es[CHOOSE l \in after : \A m \in after : l <= m].at
                        IN end - e.at = Group_binary_size(g)
             ELSE Matches(g.params[e.param])
                  => /\ U16At(handle, field, FALSE) = next - field
                     /\ next - e.at = Param_binary_size(g.params[e.param])

\* MaxGroups groups were written, one with a name outside ASCII and a
\* parameter with dimensions, one with a parameter whose bytes do not have
\* the announced length
C21_Witness ==
    /\ Len(w_objs) = MaxGroups
    /\ \E i \in DOMAIN w_objs :
          /\ w_objs[i].name = <<201>>
          /\ \E j \in DOMAIN w_objs[i].params :
                w_objs[i].params[j].dimensions = <<2, 3>> /\ Matches(w_objs[i].params[j])
    /\ \E i \in DOMAIN w_objs : \E j \in DOMAIN w_objs[i].params :
          ~Matches(w_objs[i].params[j])
    /\ Len(handle) > 0


\* the group entries and the parameter entries among es, in their order
HeaderEntries(es) == SelectSeq(es, LAMBDA e : e.group_id < 0)
ParamEntries(es) == SelectSeq(es, LAMBDA e : e.group_id > 0)

\* the groups with a header among es have distinct ids and distinct names
DistinctHeaders(es) ==
    LET hs == HeaderEntries(es)
    IN \A i, j \in DOMAIN hs :
          i # j => hs[i].group_id # hs[j].group_id /\ upper(hs[i].name) # upper(hs[j].name)

\* what a Manager binds: the Group under each number and under each name
IntView(r) ==
    {<<r.keys[i].v, r.objs[r.keys[i].ref]>> : i \in {j \in DOMAIN r.keys : r.keys[j].t = "int"}}
StrView(r) ==
    {<<r.keys[i].v, r.objs[r.keys[i].ref]>> : i \in {j \in DOMAIN r.keys : r.keys[j].t = "str"}}

\* the parameters the entries of es give to the group group_id, in order
ParamsOf(es, group_id) ==
    LET ps == SelectSeq(es, LAMBDA e : e.group_id = group_id)
    IN [i \in DOMAIN ps |->
           [name |-> upper(ps[i].name), desc |-> ps[i].desc,
            bytes_per_element |-> ps[i].bytes_per_element,
            dimensions |-> ps[i].dimensions, bytes |-> ps[i].bytes]]

\* C22: when the groups with a header have distinct ids and distinct names,
\* the Reader of a section binds the same Groups under the same numbers and
\* names as the Reader of the section with the same entries and every group
\* entry moved in front of the parameter entries; and every group with a
\* header is bound under its id and under its name, carries that name, and
\* holds the parameters of all the entries with its id.
C22_HeaderOrder ==
    (r_groups.raised # "unopened" /\ DistinctHeaders(w_objs))
    => \A first \in {Reader(SectionFile(HeaderEntries(w_objs) \o ParamEntries(w_objs)))} :
          /\ r_groups.raised = "none"
          /\ first.raised = "none"
          /\ IntView(r_groups) = IntView(first)
          /\ StrView(r_groups) = StrView(first)
          /\ \A i \in DOMAIN w_objs :
                w_objs[i].group_id < 0
                => LET id == 0 - w_objs[i].group_id
                       name == upper(w_objs[i].name)
                   IN /\ HasKey(r_groups.keys, "int", id)
                      /\ HasKey(r_groups.keys, "str", name)
                      /\ \A g \in {GroupOf(r_groups.keys, r_groups.objs, "int", id)} :
                            /\ g = GroupOf(r_groups.keys, r_groups.objs, "str", name)
                            /\ g.name = name
                            /\ g.desc = w_objs[i].desc
                            /\ g.params = ParamsOf(w_objs, id)

\* a Reader was constructed on a section in which one group's header comes
\* after its parameter and another group's header before its parameter
C22_Witness ==
    /\ r_groups.raised = "none" /\ DistinctHeaders(w_objs)
    /\ \E i, j \in DOMAIN w_objs :
          i < j /\ w_objs[i].group_id > 0 /\ w_objs[j].group_id = 0 - w_objs[i].group_id
    /\ \E i, j \in DOMAIN w_objs :
          i < j /\ w_objs[i].group_id < 0 /\ w_objs[j].group_id = 0 - w_objs[i].group_id


\* C23: a section with two group entries of the same name and different ids
\* is read without an error; the group of the later entry is bound under
\* name + str(id) and carries that name, the group of the earlier entry is
\* bound under the name and carries it, wherever the parameter entries of
\* the later group stand.
C23_DuplicateName ==
    r_groups.raised # "unopened"
    => \A i, j \in DOMAIN w_objs :
          (/\ i < j
           /\ w_objs[i].group_id < 0 /\ w_objs[j].group_id < 0
           /\ upper(w_objs[i].name) = upper(w_objs[j].name))
          => LET name == upper(w_objs[i].name)
                 early == 0 - w_objs[i].group_id
                 late == 0 - w_objs[j].group_id
                 renamed == name \o Digits(late)
             IN /\ r_groups.raised = "none"
                /\ HasKey(r_groups.keys, "str", name)
                /\ HasKey(r_groups.keys, "str", renamed)
                /\ GroupOf(r_groups.keys, r_groups.objs, "str", name)
                     = GroupOf(r_groups.keys, r_groups.objs, "int", early)
                /\ GroupOf(r_groups.keys, r_groups.objs, "str", renamed)
                     = GroupOf(r_groups.keys, r_groups.objs, "int", late)
                /\ GroupOf(r_groups.keys, r_groups.objs, "int", early).name = name
                /\ GroupOf(r_groups.keys, r_groups.objs, "int", late).name = renamed


\* the number of bits set among bits 8..14 of a word
SetBits8to14(w) == Cardinality({b \in 8..14 : (w \div Pow2(b)) % 2 = 1})

\* what the array points may hold in a row when a pass of the loop begins
OldRows == {<<0, 0, 0, 0, 0>>, <<9, 9, 9, 9, 9>>, <<-1, -1, -1, -1, -1>>}

\* C24: in the integer path (POINT:SCALE > 0), a point whose fourth int16
\* word w is <= -1 is yielded with residual -1 and camera -1; any other point
\* with residual (w & 0xff) x |POINT:SCALE| and with the number of set bits
\* among bits 8..14 of w as camera; and the row yielded is the same whatever
\* the array held before the frame was parsed.
C24_IntegerWord ==
    (r_groups.raised = "none" /\ meta.point_scale > 0)
    => \A k \in DOMAIN frames :
          \A points \in {PointsAt(k)} :
             \A i \in 1..meta.point_used :
                LET w == w_frames[k].points[i][4]
                    row == points[i]
                IN /\ w <= -1 => (row[4] = -1 /\ row[5] = -1)
                   /\ w > -1 => /\ row[4] = (w % 256) * Abs(meta.point_scale)
                                /\ row[5] = SetBits8to14(w)
                   /\ row = ReadPoint(frames[k].at, i)
                   /\ \A old \in OldRows :
                         row = ParseRow(old, handle, r_groups.proc = PROCESSOR_MIPS,
                                        meta.point_scale, frames[k].at, i)

\* two frames were yielded from 16-bit words with POINT:SCALE 2: a point that
\* was valid in the first frame (residual byte 4, three camera bits) is
\* invalid in the second
C24_Witness ==
    /\ r_groups.raised = "none" /\ meta.point_scale = 2
    /\ Len(frames) = 2
    /\ w_frames[1].points[2][4] = 1796 /\ w_frames[2].points[2][4] = -1
    /\ PointsAt(1)[2][4] = 8 /\ PointsAt(1)[2][5] = 3
    /\ PointsAt(2)[2][4] = -1 /\ PointsAt(2)[2][5] = -1


\* the four bytes of the fourth stored word of point i in the frame read at
\* pos, least significant first
FourthWord(pos, i) ==
    F32At(handle, pos + 16 * (i - 1) + 12, r_groups.proc = PROCESSOR_MIPS)

\* C25: in the float path (POINT:SCALE < 0) a point is yielded as invalid
\* (residual and camera -1) exactly if the 32-bit pattern of its fourth
\* stored word has bit 31 or bit 15 set, and a valid point is yielded with
\* the residual (low byte of the pattern) x |POINT:SCALE| and with the number
\* of set bits among bits 8..14 of the pattern as camera.
C25_FloatBits ==
    (r_groups.raised = "none" /\ meta.point_scale < 0)
    => \A k \in DOMAIN frames :
          \A points \in {PointsAt(k)} :
             \A i \in 1..meta.point_used :
                LET bits == FourthWord(frames[k].at, i)
                    invalid == bits[4] >= 128 \/ bits[2] >= 128
                    row == points[i]
                IN IF invalid THEN row[4] = -1 /\ row[5] = -1
                   ELSE /\ row[4] = bits[1] * Abs(meta.point_scale)
                        /\ row[5] = BitCount(bits[2] % 128)


\* C26: for every byte array of 4-byte DEC words, the bulk conversion gives
\* the bit patterns the scalar conversion gives for its words, each read as
\* a little-endian 32-bit integer.
C26_BulkIsScalar ==
    frames # <<>> => frames[1].bulk = frames[1].scalar


\* the metadata write() is going to check is not consistent: the Writer has
\* frames and no groups yet, and one of the assertions of _check_metadata
\* fails on the header as write() sets it
Inconsistent ==
    /\ w_frames # <<>> /\ w_keys = <<>>
    /\ ~check_metadata(SyncHeader(w_header, 0, Len(w_frames[1].points), w_frames[1].analog),
                       w_frames[1].analog)

\* C27: a write() on a Writer whose metadata fails a check of
\* _check_metadata raises AssertionError with the sink as it was: no byte
\* was written to it and its position was not moved.
C27_CheckBeforeWrite ==
    [][(Inconsistent /\ w_keys' # w_keys)
       => (w_pc' = "AssertionError" /\ handle' = handle /\ position' = position)]_vars

\* a write() failed on a first frame whose analog array has two columns with
\* analog_rate 0, and the sink still stands where it stood, at offset 7
C27_Witness ==
    /\ w_pc = "AssertionError"
    /\ writer.analog_rate = 0 /\ w_frames # <<>> /\ Len(w_frames[1].analog[1]) = 2
    /\ handle = <<>> /\ position = 7


\* the parameter section of the file in the handle: its first byte and the
\* byte after its last
SectionStart == (DefaultHeader.parameter_block - 1) * BlockSize + 4
SectionEnd == SectionStart + BlockSize * handle[SectionStart - 1] - 4

\* the offset of chunk k of the section, and all chunks before it are entries
ChunkAt(k) == SectionStart + Sum([j \in 1..(k - 1) |-> Len(w_objs[j].bytes)])
EntriesBefore(k) == \A j \in 1..(k - 1) : w_objs[j].kind = "entry"

\* the loop moved on by four bytes or more from each entry it read, and
\* never beyond the end of the source
Advances ==
    LET es == r_groups.entries
    IN /\ \A i \in 1..(Len(es) - 1) : es[i + 1] >= es[i] + 4
       /\ es # <<>> => position >= es[Len(es)] + 4
       /\ position <= Len(handle)

\* the loop stopped at chunk k, having read the k - 1 entries before it
StopsAt(k) ==
    /\ r_groups.raised = "none"
    /\ position = ChunkAt(k) + 2
    /\ r_groups.entries = [j \in 1..(k - 1) |-> ChunkAt(j)]

\* the loop took chunk k as the last entry and left the handle at the end of
\* the section; the parameter is the one of the entry ('W' of group 3)
TakesRest(k) ==
    /\ r_groups.raised = "none"
    /\ position = SectionEnd
    /\ r_groups.entries = [j \in 1..k |-> ChunkAt(j)]
    /\ \E g \in {GroupOf(r_groups.keys, r_groups.objs, "int", 3)} :
          /\ Len(g.params) = 1
          /\ g.params[1].name = <<87>> /\ g.params[1].bytes = <<43, 88>>

\* C28: the walk of Reader.__init__ over the parameter section ends on every
\* source: from each entry it reads it moves on by at least four bytes, it
\* stops at the first entry with a zero name length or a zero id, and an
\* entry with offset_to_next 0 takes the rest of the section, leaving the
\* handle at the end of the section with no error, when the source holds
\* the section to its end.
C28_WalkEnds ==
    r_groups # NoReader =>
       /\ Advances
       /\ \A k \in DOMAIN w_objs :
             /\ (w_objs[k].kind = "end" /\ EntriesBefore(k)
                 /\ ChunkAt(k) + 2 <= Len(handle)) => StopsAt(k)
             /\ (w_objs[k].kind = "last" /\ EntriesBefore(k)
                 /\ Len(handle) >= SectionEnd) => TakesRest(k)

\* a parameter with offset_to_next 0 came second in a section that a block
\* of other bytes follows, and the walk ended at the end of the section
C28_Witness ==
    /\ r_groups # NoReader /\ Len(w_objs) = 2
    /\ w_objs[1].kind = "entry" /\ w_objs[2].kind = "last"
    /\ Len(handle) > SectionEnd
    /\ TakesRest(2)

\* C28 as stated, for every source: an entry with offset_to_next 0 ends the
\* walk with no error wherever the source ends
C28_AnySource ==
    r_groups # NoReader =>
       \A k \in DOMAIN w_objs :
          (w_objs[k].kind = "last" /\ EntriesBefore(k)
           /\ ChunkAt(k) + Len(w_objs[k].bytes) <= Len(handle))
             => r_groups.raised = "none"


\* the bytes of frame k in the file a write left in the handle: records of
\* four 4-byte words a point, from the block header.data_block on
RecordOf(k) ==
    LET size == 16 * Len(w_frames[1].points)
        start == BlockSize * (w_header.data_block - 1) + (k - 1) * size
    IN SubSeq(handle, start + 1, start + size)

\* the bytes _write_frames gives frame k when it is the only frame, for the
\* value junk of uninitialised memory
RecordAlone(k, junk) ==
    PointWords(RawFrames(<<w_frames[k]>>, np_empty(Len(w_frames[1].points), junk),
                         writer.point_scale < 0, Abs(writer.point_scale))[1],
               writer.point_scale < 0)

\* C29: the bytes _write_frames writes for a frame depend on the point data
\* of that frame and the scale only: they are the bytes the frame gets when
\* no frame is written before it, the x, y, z words of an invalid point
\* among them.
C29_OwnData ==
    Written => \A k \in DOMAIN w_frames : \E junk \in Junk : RecordOf(k) = RecordAlone(k, junk)


\* where the record of frame n starts in the file
RecordAt(n) == data_start + (n - first_frame) * (point_bytes + analog_bytes)

\* every frame of fs was decoded from the record of its number
OwnRecords(fs) == \A k \in DOMAIN fs : fs[k].at = RecordAt(fs[k].frame_no)

====
